---- MODULE Spec2Model ----
(***************************************************************************)
(* State-machine model of the chat broker of server/server.js (the five    *)
(* module-level maps, the socket.io room adapter, and one action per       *)
(* inbound socket event), with the pure helpers of the server and of       *)
(* client/src/utils/chatHelpers.js as operators.                           *)
(*                                                                         *)
(* JavaScript strings are sequences of UTF-16 code units (naturals), so    *)
(* that trim, concatenation, startsWith and comparison are computed as     *)
(* the code computes them.  `undefined` is the one-element sequence <<-1>>,*)
(* which is no string.  A JavaScript Set whose iteration order the code    *)
(* never observes is a set; a Map is a function on its keys.               *)
(***************************************************************************)
EXTENDS Integers, Sequences, FiniteSets, TLC

\* ------------------------------------------------------------------------
\* Bounds of the model
\* ------------------------------------------------------------------------

\* uuidv4() is called at most MaxMessages times in one behaviour
MaxMessages == 3

\* receipt and reaction events change at most MaxTouched messages in one
\* behaviour
MaxTouched == 1
\* messages built on top of the logs a behaviour starts from, in the
\* behaviours that start from logs already written
MaxLogMessages == 2

\* setTimeout is called at most MaxTimers times in one behaviour
MaxTimers == 3

\* the longest room log a behaviour of the history requests starts from
MaxHistory == 100

\* ------------------------------------------------------------------------
\* Strings
\* ------------------------------------------------------------------------

undefined == <<-1>>
\* null, likewise no string
null == <<-2>>

\* JavaScript truthiness of a string-or-undefined value
Truthy(v) == v # undefined /\ v # null /\ v # <<>>

Min(S) == CHOOSE x \in S : \A y \in S : x <= y
Max(S) == CHOOSE x \in S : \A y \in S : x >= y

\* code units String.prototype.trim strips (space, tab, LF, CR, NBSP)
WhiteSpace == {32, 9, 10, 13, 160}

\* a mutant of trim: the string is kept as it is
trim_none(s) == s

\* String.prototype.trim
trim(s) ==
  LET keep == {i \in 1..Len(s) : s[i] \notin WhiteSpace}
  IN  IF keep = {} THEN <<>> ELSE SubSeq(s, Min(keep), Max(keep))

\* String.prototype.startsWith
startsWith(s, p) == Len(p) <= Len(s) /\ SubSeq(s, 1, Len(p)) = p

\* string literals of server.js
STR_general == <<103, 101, 110, 101, 114, 97, 108>>
STR_random == <<114, 97, 110, 100, 111, 109>>
STR_General == <<71, 101, 110, 101, 114, 97, 108>>
STR_Random == <<82, 97, 110, 100, 111, 109>>
STR_system == <<115, 121, 115, 116, 101, 109>>
STR_System == <<83, 121, 115, 116, 101, 109>>
STR_joined_the_chat == <<32, 106, 111, 105, 110, 101, 100, 32, 116, 104, 101, 32, 99, 104, 97, 116>>
STR_joined == <<32, 106, 111, 105, 110, 101, 100, 32>>
STR_left == <<32, 108, 101, 102, 116, 32>>
STR_left_the_room == <<32, 108, 101, 102, 116, 32, 116, 104, 101, 32, 114, 111, 111, 109>>
STR_colon == <<58>>
STR_thread_sep == <<58, 58>>

\* the decimal digits of n
RECURSIVE Digits(_)
Digits(n) == IF n < 10 THEN <<48 + n>> ELSE Digits(n \div 10) \o <<48 + (n % 10)>>

\* the n-th value returned by uuidv4(): a string of lower-case letters and
\* digits (as a version 4 uuid is) that differs for every n
uuidv4(n) == <<117>> \o Digits(n)

MAX_ROOM_MESSAGES == 250
MAX_PRIVATE_MESSAGES == 250


\* ------------------------------------------------------------------------
\* Maps (JavaScript Map: a function on the keys present)
\* ------------------------------------------------------------------------

EmptyMap == [k \in {} |-> k]
MapSet(m, k, v) == (k :> v) @@ m
MapDelete(m, k) == [x \in DOMAIN m \ {k} |-> m[x]]
MapHas(m, k) == k \in DOMAIN m
MapGet(m, k) == IF k \in DOMAIN m THEN m[k] ELSE undefined

\* ------------------------------------------------------------------------
\* Inputs the inbound events are drawn from
\* ------------------------------------------------------------------------

\* socket ids "s1", "s2" (socket.io gives every connection a fresh id)
Sockets == {<<115, 49>>, <<115, 50>>}

\* usernames "a" and "b"
Usernames == {<<97>>, <<98>>}

\* usernames "a", "\u00e9" (one code unit) and "e\u0301" (e and the combining
\* acute accent): the last two are canonically equivalent and distinct strings
AccentedUsernames == {<<97>>, <<233>>, <<101, 769>>}

\* message text "hi"
Messages == {<<104, 105>>}

\* emoji: thumbs-up (U+1F44D as a surrogate pair)
Emojis == {<<55357, 56397>>}

\* ids of the rooms of the model: "general", "random", "dev"
RoomIds == {<<103, 101, 110, 101, 114, 97, 108>>, <<114, 97, 110, 100, 111, 109>>,
            <<100, 101, 118>>}

\* join_room payloads: roomId "general", "random" or none; roomName "Dev"
\* (whose slug is "dev") or none
RoomIdInputs == {<<-1>>, <<103, 101, 110, 101, 114, 97, 108>>,
                 <<114, 97, 110, 100, 111, 109>>}
RoomNameInputs == {<<-1>>, <<68, 101, 118>>}

\* ------------------------------------------------------------------------
\* State
\* ------------------------------------------------------------------------

VARIABLES
  users,              \* Map socket id -> user record           (server.js:72)
  usernameToSocketId, \* Map username -> socket id              (server.js:73)
  rooms,              \* Map room id -> room                    (server.js:74)
  privateThreads,     \* Map thread key -> thread               (server.js:75)
  typingTimers,       \* Map `${socket.id}:${roomId}` -> timer handle (server.js:76)
  timers,             \* the runtime's pending timeouts: set by setTimeout, not yet
                      \* fired and not cleared
  armed,              \* every timeout ever set, in the order of the setTimeout calls
  expired,            \* handles of the timeouts that have fired
  sockRooms,          \* socket.io adapter: connected socket -> rooms it is in
  closed,             \* ids of the sockets that have disconnected
  nextId,             \* number of the next uuidv4() value
  roomHistory,        \* room id -> ids of all messages ever appended to it
  threadHistory,      \* thread key -> ids of all messages ever appended to it
  touched,            \* ids of the messages a receipt or reaction event changed
  uuidLimit,          \* the behaviour makes no uuidv4() call with this number
  typingByThread,     \* client of a connection: thread id -> usernames shown as
                      \* typing                           (chatHelpers.js:43)
  composerTimeout,    \* client of a connection: the counterpart its composer's
                      \* pending stop-typing timeout is for (MessageComposer.jsx:7)
  usernameRef,        \* client of a connection: the username it remembers
                      \*                                    (chatHelpers.js:331)
  sendBuffer,         \* connections whose client has emitted user_join and the
                      \* server has not yet received it
  lost,               \* ids of the connections whose transport has been lost
  process             \* the Node.js process of the server: "running", or
                      \* "uncaughtException" once a handler has thrown

vars == <<users, usernameToSocketId, rooms, privateThreads, typingTimers,
          timers, armed, expired, sockRooms, closed, nextId, roomHistory, threadHistory, touched,
          uuidLimit, typingByThread, composerTimeout, usernameRef, sendBuffer,
          lost, process>>

\* the state of the clients and of their transports
client == <<typingByThread, composerTimeout, usernameRef, sendBuffer, lost>>

\* no acknowledgement given (the ack is a sequence of zero or one value)
NoAck == <<>>

\* What a handler works on: the maps as they are, with the events it emits
\* (in order) and the acknowledgement it gives.  Emissions and
\* acknowledgements leave the process, so they are results of the handler
\* and no part of the state it leaves.
Cur ==
  [users |-> users, usernameToSocketId |-> usernameToSocketId, rooms |-> rooms,
   privateThreads |-> privateThreads, typingTimers |-> typingTimers,
   timers |-> timers, armed |-> armed, expired |-> expired,
   sockRooms |-> sockRooms, closed |-> closed, nextId |-> nextId,
   emitted |-> <<>>, ack |-> NoAck,
   roomHistory |-> roomHistory, threadHistory |-> threadHistory]

\* the state a handler leaves
Becomes(st) ==
  /\ users' = st.users
  /\ usernameToSocketId' = st.usernameToSocketId
  /\ rooms' = st.rooms
  /\ privateThreads' = st.privateThreads
  /\ typingTimers' = st.typingTimers
  /\ timers' = st.timers
  /\ armed' = st.armed
  /\ expired' = st.expired
  /\ sockRooms' = st.sockRooms
  /\ closed' = st.closed
  /\ nextId' = st.nextId
  /\ roomHistory' = st.roomHistory
  /\ threadHistory' = st.threadHistory

\* ------------------------------------------------------------------------
\* socket.io emission primitives
\* ------------------------------------------------------------------------

Emit(st, event, to, data) ==
  [st EXCEPT !.emitted = Append(@, [event |-> event, to |-> to, data |-> data])]

\* io.emit: every connected socket
io_emit(st, event, data) == Emit(st, event, DOMAIN st.sockRooms, data)

\* io.to(room).emit: every connected socket that is in the adapter room
io_to_emit(st, room, event, data) ==
  Emit(st, event, {s \in DOMAIN st.sockRooms : room \in st.sockRooms[s]}, data)

\* socket.emit: the socket itself
socket_emit(st, sock, event, data) == Emit(st, event, {sock}, data)

\* socket.to(room).emit: the adapter room without the socket itself
socket_to_emit(st, sock, room, event, data) ==
  Emit(st, event,
       {s \in DOMAIN st.sockRooms : room \in st.sockRooms[s]} \ {sock}, data)

\* socket.join(room) / socket.leave(room)
socket_join(st, sock, room) ==
  [st EXCEPT !.sockRooms[sock] = @ \cup {room}]
socket_leave(st, sock, room) ==
  [st EXCEPT !.sockRooms[sock] = @ \ {room}]

\* ack?.(value)
Ack(st, value) == [st EXCEPT !.ack = <<value>>]

\* ------------------------------------------------------------------------
\* Rooms
\* ------------------------------------------------------------------------

STR_room_dash == <<114, 111, 111, 109, 45>>
\* the descriptions of the default rooms, which no code reads, are cut to
\* their first word: "Welcome", "Anything"
STR_desc_general == <<87, 101, 108, 99, 111, 109, 101>>
STR_desc_random == <<65, 110, 121, 116, 104, 105, 110, 103>>

DEFAULT_ROOMS ==
  << [id |-> STR_general, name |-> STR_General, description |-> STR_desc_general],
     [id |-> STR_random, name |-> STR_Random, description |-> STR_desc_random] >>

\* String.prototype.toLowerCase on the ASCII letters
toLowerCase(s) ==
  [i \in 1..Len(s) |-> IF s[i] >= 65 /\ s[i] <= 90 THEN s[i] + 32 ELSE s[i]]

\* the class [a-z0-9]
IsAlnum(c) == (c >= 97 /\ c <= 122) \/ (c >= 48 /\ c <= 57)

\* .replace(/[^a-z0-9]+/g, '-')
RECURSIVE ReplaceRuns(_)
ReplaceRuns(s) ==
  IF s = <<>> THEN <<>>
  ELSE LET rest == ReplaceRuns(Tail(s))
       IN  IF IsAlnum(Head(s)) THEN <<Head(s)>> \o rest
           ELSE IF rest # <<>> /\ Head(rest) = 45 THEN rest
           ELSE <<45>> \o rest

\* .replace(/(^-|-$)/g, '')
StripHyphens(s) ==
  LET a == IF s # <<>> /\ Head(s) = 45 THEN Tail(s) ELSE s
  IN  IF a # <<>> /\ a[Len(a)] = 45 THEN SubSeq(a, 1, Len(a) - 1) ELSE a

\* normalizeRoomId without the `|| room-<uuid>` fallback
Slug(value) == StripHyphens(ReplaceRuns(trim(toLowerCase(value))))

\* normalizeRoomId(value), n being the number of the next uuid
normalizeRoomId(value, n) ==
  IF Slug(value) # <<>> THEN Slug(value) ELSE STR_room_dash \o uuidv4(n)

\* a mutant of createRoom: a room that exists is made anew
createRoom_overwrite(st, name, options) ==
  LET useId == Truthy(options.id)
      roomId == IF useId THEN options.id ELSE normalizeRoomId(name, st.nextId)
      st1 == IF ~useId /\ Slug(name) = <<>>
             THEN [st EXCEPT !.nextId = @ + 1] ELSE st
      room == [id |-> roomId,
               name |-> IF Truthy(options.name) THEN options.name ELSE name,
               description |-> IF Truthy(options.description)
                               THEN options.description ELSE <<>>,
               createdBy |-> IF Truthy(options.createdBy)
                             THEN options.createdBy ELSE STR_system,
               messages |-> <<>>,
               members |-> {},
               typing |-> {}]
  IN  [st |-> [st1 EXCEPT !.rooms = MapSet(@, roomId, room),
                          !.roomHistory = MapSet(@, roomId, <<>>)],
       roomId |-> roomId]

\* createRoom(name, options): the state after it and the id of the room it
\* returns.  options.id wins when truthy; uuidv4() is called only when the
\* slug is empty.
createRoom(st, name, options) ==
  LET useId == Truthy(options.id)
      roomId == IF useId THEN options.id ELSE normalizeRoomId(name, st.nextId)
      st1 == IF ~useId /\ Slug(name) = <<>>
             THEN [st EXCEPT !.nextId = @ + 1] ELSE st
      room == [id |-> roomId,
               name |-> IF Truthy(options.name) THEN options.name ELSE name,
               description |-> IF Truthy(options.description)
                               THEN options.description ELSE <<>>,
               createdBy |-> IF Truthy(options.createdBy)
                             THEN options.createdBy ELSE STR_system,
               messages |-> <<>>,
               members |-> {},
               typing |-> {}]
  IN  IF MapHas(st.rooms, roomId)
      THEN [st |-> st1, roomId |-> roomId]
      ELSE [st |-> [st1 EXCEPT !.rooms = MapSet(@, roomId, room),
                               !.roomHistory = MapSet(@, roomId, <<>>)],
            roomId |-> roomId]

\* ------------------------------------------------------------------------
\* Messages and logs
\* ------------------------------------------------------------------------

\* buildMessage: the message record with uuid number n (timestamp,
\* attachments and tempId are carried through unread and are left out)
buildMessage(roomId, sender, body, isSystem, isPrivate, n) ==
  [id |-> uuidv4(n),
   roomId |-> roomId,
   sender |-> sender.username,
   senderId |-> sender.id,
   body |-> body,
   isSystem |-> isSystem,
   isPrivate |-> isPrivate,
   reactions |-> EmptyMap,
   deliveredTo |-> {sender.username},
   readBy |-> IF isSystem THEN {} ELSE {sender.username}]

\* serializeMessage: the plain copy sent on the wire
serializeMessage(message) ==
  [id |-> message.id,
   roomId |-> message.roomId,
   sender |-> message.sender,
   senderId |-> message.senderId,
   body |-> message.body,
   isSystem |-> message.isSystem,
   isPrivate |-> message.isPrivate,
   reactions |-> message.reactions,
   deliveredTo |-> message.deliveredTo,
   readBy |-> message.readBy]

\* a mutant of trimMessages: the comparison is with max + 1
trimMessages_offByOne(collection, max) ==
  IF Len(collection) > max + 1
  THEN SubSeq(collection, Len(collection) - max + 1, Len(collection))
  ELSE collection

\* a mutant of trimMessages: the newest messages are cut, splice(max)
trimMessages_dropNewest(collection, max) ==
  IF Len(collection) > max THEN SubSeq(collection, 1, max) ELSE collection

\* trimMessages: splice(0, length - max) when the collection is over max
trimMessages(collection, max) ==
  IF Len(collection) > max
  THEN SubSeq(collection, Len(collection) - max + 1, Len(collection))
  ELSE collection

\* addMessageToRoom: push, then trim
addMessageToRoom(st, roomId, message) ==
  [st EXCEPT
     !.rooms[roomId].messages = trimMessages(Append(@, message), MAX_ROOM_MESSAGES),
     !.roomHistory[roomId] = Append(@, message.id)]

\* addMessageToThread: push, then trim
addMessageToThread(st, key, message) ==
  [st EXCEPT
     !.privateThreads[key].messages =
        trimMessages(Append(@, message), MAX_PRIVATE_MESSAGES),
     !.threadHistory[key] = Append(@, message.id)]

\* a mutant of registerDelivered: the receipt is not recorded
registerDelivered_none(message, username) ==
  message

registerDelivered(message, username) ==
  [message EXCEPT !.deliveredTo = @ \cup {username}]

\* a mutant of registerRead: the set is replaced by the reader alone
registerRead_replace(message, username) ==
  [message EXCEPT !.readBy = {username}]

registerRead(message, username) ==
  [message EXCEPT !.readBy = @ \cup {username}]

\* a mutant of toggleReaction: the username is added, never removed
toggleReaction_addOnly(message, emoji, username) ==
  LET r0 == IF MapHas(message.reactions, emoji) THEN message.reactions
            ELSE MapSet(message.reactions, emoji, {})
  IN  [message EXCEPT !.reactions = [r0 EXCEPT ![emoji] = @ \cup {username}]]

\* a mutant of toggleReaction: an emptied set stays under its emoji
toggleReaction_keepEmpty(message, emoji, username) ==
  LET r0 == IF MapHas(message.reactions, emoji) THEN message.reactions
            ELSE MapSet(message.reactions, emoji, {})
  IN  IF username \in r0[emoji]
      THEN [message EXCEPT !.reactions = [r0 EXCEPT ![emoji] = @ \ {username}]]
      ELSE [message EXCEPT !.reactions = [r0 EXCEPT ![emoji] = @ \cup {username}]]

\* toggleReaction: setWith creates the emoji's set when absent; the user is
\* removed (and an emptied set deleted) or added
toggleReaction(message, emoji, username) ==
  LET r0 == IF MapHas(message.reactions, emoji) THEN message.reactions
            ELSE MapSet(message.reactions, emoji, {})
  IN  IF username \in r0[emoji]
      THEN LET r1 == [r0 EXCEPT ![emoji] = @ \ {username}]
           IN  [message EXCEPT !.reactions =
                  IF r1[emoji] = {} THEN MapDelete(r1, emoji) ELSE r1]
      ELSE [message EXCEPT !.reactions = [r0 EXCEPT ![emoji] = @ \cup {username}]]

\* Array.prototype.findIndex(item => item.id === id): 0-based, -1 when absent
findIndex(messages, id) ==
  IF \E i \in 1..Len(messages) : messages[i].id = id
  THEN Min({i \in 1..Len(messages) : messages[i].id = id}) - 1
  ELSE -1

\* Array.prototype.slice(start, end) for 0 <= start, 0 <= end
slice(messages, start, end) ==
  LET e == IF end > Len(messages) THEN Len(messages) ELSE end
  IN  IF start >= e THEN <<>> ELSE SubSeq(messages, start + 1, e)

\* messages with the first one whose id is `id` replaced by f of it
ReplaceMessage(messages, id, new) ==
  [i \in 1..Len(messages) |->
     IF i = findIndex(messages, id) + 1 THEN new ELSE messages[i]]

\* addSystemMessage(roomId, text)
addSystemMessage(st, roomId, text) ==
  IF ~MapHas(st.rooms, roomId) THEN st
  ELSE LET systemSender == [id |-> STR_system, username |-> STR_System]
           message == buildMessage(roomId, systemSender, text, TRUE, FALSE, st.nextId)
           st1 == addMessageToRoom([st EXCEPT !.nextId = @ + 1], roomId, message)
       IN  io_to_emit(st1, roomId, "receive_message", serializeMessage(message))

\* ------------------------------------------------------------------------
\* Insertion-ordered Set (user.rooms is iterated with forEach)
\* ------------------------------------------------------------------------

Range(q) == {q[i] : i \in 1..Len(q)}
SetHas(q, x) == x \in Range(q)
SetAdd(q, x) == IF SetHas(q, x) THEN q ELSE Append(q, x)
SetDelete(q, x) == SelectSeq(q, LAMBDA y : y # x)

\* ------------------------------------------------------------------------
\* Private threads
\* ------------------------------------------------------------------------

\* canonical decomposition (NFD) on the modelled alphabet: U+00E9 is
\* U+0065 U+0301; every other modelled code unit decomposes to itself
RECURSIVE NFD(_)
NFD(s) ==
  IF s = <<>> THEN <<>>
  ELSE (IF Head(s) = 233 THEN <<101, 769>> ELSE <<Head(s)>>) \o NFD(Tail(s))

\* combining marks carry no primary weight
IsCombining(c) == c = 769

\* primary collation key: the base letters without case and without marks
PrimaryKey(s) == toLowerCase(SelectSeq(s, LAMBDA c : ~IsCombining(c)))

\* tertiary weight of a code unit: by letter, lower case before upper case
TertiaryWeight(c) == IF c >= 65 /\ c <= 90 THEN 2 * (c + 32) + 1 ELSE 2 * c

TertiaryKey(s) == [i \in 1..Len(s) |-> TertiaryWeight(s[i])]

\* lexicographic comparison of two sequences of weights: -1, 0 or 1
RECURSIVE LexCompare(_, _)
LexCompare(x, y) ==
  IF x = <<>> /\ y = <<>> THEN 0
  ELSE IF x = <<>> THEN -1
  ELSE IF y = <<>> THEN 1
  ELSE IF Head(x) < Head(y) THEN -1
  ELSE IF Head(x) > Head(y) THEN 1
  ELSE LexCompare(Tail(x), Tail(y))

\* String.prototype.localeCompare: a total preorder on strings that is 0 on
\* canonically equivalent strings (ECMA-262 22.1.3.12); compared by primary
\* key first, then by case and marks
localeCompare(x, y) ==
  IF PrimaryKey(NFD(x)) # PrimaryKey(NFD(y))
  THEN LexCompare(PrimaryKey(NFD(x)), PrimaryKey(NFD(y)))
  ELSE LexCompare(TertiaryKey(NFD(x)), TertiaryKey(NFD(y)))

\* [a, b].sort((x, y) => x.localeCompare(y)): the sort is stable, so two
\* elements that compare 0 keep their order
sortPair(a, b) == IF localeCompare(a, b) > 0 THEN <<b, a>> ELSE <<a, b>>

\* makeThreadKey (server)
makeThreadKey(a, b) == sortPair(a, b)[1] \o STR_thread_sep \o sortPair(a, b)[2]

\* makeThreadId (client)
makeThreadId(a, b) == sortPair(a, b)[1] \o STR_thread_sep \o sortPair(a, b)[2]

\* thread ids a payload names
ThreadIdInputs == {makeThreadKey(a, b) : a \in Usernames, b \in Usernames}

\* message ids a payload names
MessageIds == {uuidv4(n) : n \in 1..MaxMessages}

\* a mutant of ensurePrivateThread: the thread is made anew at every call
ensurePrivateThread_fresh(st, userA, userB) ==
  LET key == makeThreadKey(userA, userB)
  IN  [st EXCEPT
         !.privateThreads = MapSet(@, key,
            [id |-> key, participants |-> <<userA, userB>>, messages |-> <<>>]),
         !.threadHistory = MapSet(@, key, <<>>)]

\* ensurePrivateThread(userA, userB): the state after it; the thread is
\* st.privateThreads[makeThreadKey(userA, userB)]
ensurePrivateThread(st, userA, userB) ==
  LET key == makeThreadKey(userA, userB)
  IN  IF MapHas(st.privateThreads, key) THEN st
      ELSE [st EXCEPT
              !.privateThreads = MapSet(@, key,
                 [id |-> key, participants |-> <<userA, userB>>, messages |-> <<>>]),
              !.threadHistory = MapSet(@, key, <<>>)]

\* ------------------------------------------------------------------------
\* Views
\* ------------------------------------------------------------------------

\* Array.prototype.slice(-n): the last n elements
lastN(messages, n) ==
  IF Len(messages) <= n THEN messages
  ELSE SubSeq(messages, Len(messages) - n + 1, Len(messages))

serializeRoom(room) ==
  LET messages == [i \in 1..Len(lastN(room.messages, 30)) |->
                     serializeMessage(lastN(room.messages, 30)[i])]
  IN  [id |-> room.id,
       name |-> room.name,
       description |-> room.description,
       createdBy |-> room.createdBy,
       memberCount |-> Cardinality(room.members),
       hasMore |-> Len(room.messages) > Len(messages),
       messages |-> messages]

serializeThread(thread, viewer) ==
  LET messages == [i \in 1..Len(lastN(thread.messages, 30)) |->
                     serializeMessage(lastN(thread.messages, 30)[i])]
      others == {i \in 1..2 : thread.participants[i] # viewer}
  IN  [id |-> thread.id,
       participants |-> thread.participants,
       counterpart |-> IF others = {} THEN null
                       ELSE thread.participants[Min(others)],
       hasMore |-> Len(thread.messages) > Len(messages),
       messages |-> messages]

\* listUserThreads(username)
listUserThreads(st, username) ==
  {serializeThread(st.privateThreads[k], username) :
     k \in {x \in DOMAIN st.privateThreads :
              username \in Range(st.privateThreads[x].participants)}}

getPublicUsers(st) ==
  {[id |-> st.users[s].id,
    username |-> st.users[s].username,
    activeRoom |-> st.users[s].activeRoom,
    rooms |-> st.users[s].rooms] : s \in DOMAIN st.users}

emitUserList(st) == io_emit(st, "user_list", getPublicUsers(st))

emitRoomList(st) ==
  io_emit(st, "room_list",
          {[id |-> st.rooms[r].id,
            name |-> st.rooms[r].name,
            description |-> st.rooms[r].description,
            memberCount |-> Cardinality(st.rooms[r].members)] : r \in DOMAIN st.rooms})

\* ------------------------------------------------------------------------
\* Handlers of the inbound events: the state each leaves
\* ------------------------------------------------------------------------

\* io.on('connection'): socket.io puts the socket in the room of its own id
connection(st, sock) == [st EXCEPT !.sockRooms = MapSet(@, sock, {sock})]

\* a mutant of usernameInUse: the lookup goes to the map keyed by socket id
usernameInUse_wrongMap(st, username) == MapHas(st.users, username)

\* usernameToSocketId.has(username)
usernameInUse(st, username) == MapHas(st.usernameToSocketId, username)

\* socket.on('user_join'): rawUsername is payload or payload.username
user_join(st, sock, rawUsername) ==
  LET username == IF Truthy(rawUsername) THEN trim(rawUsername) ELSE <<>>
  IN
  IF username = <<>>
    THEN Ack(st, [ok |-> FALSE, error |-> "Username is required"])
  ELSE IF usernameInUse(st, username)
    THEN Ack(st, [ok |-> FALSE, error |-> "That username is already in use"])
  ELSE
    LET userRecord == [id |-> sock, username |-> username,
                       activeRoom |-> STR_general, rooms |-> <<STR_general>>]
        st1 == [st EXCEPT !.users = MapSet(@, sock, userRecord),
                          !.usernameToSocketId = MapSet(@, username, sock)]
        st2 == IF MapHas(st1.rooms, STR_general) THEN st1
               ELSE createRoom(st1, STR_General,
                               [id |-> STR_general, name |-> undefined,
                                description |-> undefined,
                                createdBy |-> undefined]).st
        st3 == socket_join(st2, sock, STR_general)
        st4 == [st3 EXCEPT !.rooms[STR_general].members = @ \cup {sock}]
        st5 == socket_emit(st4, sock, "initial_state",
                 [rooms |-> {serializeRoom(st4.rooms[r]) : r \in Range(userRecord.rooms)},
                  threads |-> listUserThreads(st4, username),
                  activeRoom |-> userRecord.activeRoom,
                  users |-> getPublicUsers(st4)])
        st6 == emitRoomList(emitUserList(st5))
        st7 == io_emit(st6, "user_joined", [username |-> username, id |-> sock])
        st8 == addSystemMessage(st7, STR_general, username \o STR_joined_the_chat)
    IN  Ack(st8, [ok |-> TRUE, activeRoom |-> userRecord.activeRoom])

\* a mutant of clearTimeout: the timeout stays pending
clearTimeout_none(pending, handles) == pending

\* clearTimeout for each of the handles: a pending timeout with that handle
\* is no longer pending; any other handle (undefined, fired, cleared) does
\* nothing
clearTimeout(pending, handles) == {t \in pending : t.handle \notin handles}

\* the body of user.rooms.forEach in the disconnect handler, room by room
RECURSIVE disconnectRooms(_, _, _, _)
disconnectRooms(st, sock, username, roomIds) ==
  IF roomIds = <<>> THEN st
  ELSE LET roomId == Head(roomIds)
           st1 == IF ~MapHas(st.rooms, roomId) THEN st
                  ELSE LET a == [st EXCEPT !.rooms[roomId].members = @ \ {sock},
                                           !.rooms[roomId].typing = @ \ {username}]
                           b == addSystemMessage(a, roomId, username \o STR_left_the_room)
                       IN  io_to_emit(b, roomId, "typing_users",
                                      [roomId |-> roomId, users |-> b.rooms[roomId].typing])
       IN  disconnectRooms(st1, sock, username, Tail(roomIds))

\* socket.on('disconnect').  socket.io has taken the socket out of every
\* adapter room before the handler runs.
disconnect(st, sock) ==
  LET st0 == [st EXCEPT !.sockRooms = MapDelete(@, sock),
                        !.closed = @ \cup {sock}]
  IN
  IF ~MapHas(st0.users, sock) THEN st0
  ELSE
    LET user == st0.users[sock]
        username == user.username
        st1 == disconnectRooms(st0, sock, username, user.rooms)
        mine == {k \in DOMAIN st1.typingTimers : startsWith(k, sock \o STR_colon)}
        st2 == [st1 EXCEPT
                  !.users = MapDelete(@, sock),
                  !.usernameToSocketId = MapDelete(@, username),
                  !.timers = clearTimeout(@, {st1.typingTimers[k] : k \in mine}),
                  !.typingTimers = [k \in DOMAIN @ \ mine |-> @[k]]]
        st3 == emitRoomList(emitUserList(st2))
    IN  io_emit(st3, "user_left", [username |-> username, id |-> sock])

\* socket.on('join_room'): payload {roomId, roomName, description}
join_room(st, sock, requestedRoom, roomName, description) ==
  IF ~MapHas(st.users, sock)
    THEN Ack(st, [ok |-> FALSE, error |-> "Not authenticated"])
  ELSE
    LET user == st.users[sock]
        targetName == IF Truthy(requestedRoom) THEN requestedRoom ELSE roomName
    IN
    IF ~Truthy(targetName)
      THEN Ack(st, [ok |-> FALSE, error |-> "Room name is required"])
    ELSE
      LET made == createRoom(st, targetName,
                             [id |-> requestedRoom, name |-> roomName,
                              description |-> description,
                              createdBy |-> user.username])
          roomId == made.roomId
          st1 == made.st
          st2 == IF SetHas(user.rooms, roomId) THEN st1
                 ELSE LET a == [st1 EXCEPT !.users[sock].rooms = SetAdd(@, roomId),
                                           !.rooms[roomId].members = @ \cup {sock}]
                          b == socket_join(a, sock, roomId)
                      IN  addSystemMessage(b, roomId,
                            user.username \o STR_joined \o b.rooms[roomId].name)
          st3 == [st2 EXCEPT !.users[sock].activeRoom = roomId]
          payloadRoom == serializeRoom(st3.rooms[roomId])
          st4 == socket_emit(st3, sock, "room_joined", payloadRoom)
          st5 == socket_to_emit(st4, sock, roomId, "room_user_joined",
                   [roomId |-> roomId,
                    user |-> [id |-> user.id, username |-> user.username]])
          st6 == emitRoomList(st5)
      IN  Ack(st6, [ok |-> TRUE, roomId |-> roomId, room |-> payloadRoom])

\* socket.on('leave_room'): payload {roomId}
leave_room(st, sock, roomId) ==
  IF ~MapHas(st.users, sock) \/ ~MapHas(st.rooms, roomId)
    THEN Ack(st, [ok |-> FALSE, error |-> "Unable to leave room"])
  ELSE
    LET user == st.users[sock]
        room == st.rooms[roomId]
        st1 == [st EXCEPT !.users[sock].rooms = SetDelete(@, roomId),
                          !.rooms[roomId].members = @ \ {sock}]
        st2 == socket_leave(st1, sock, roomId)
        st3 == addSystemMessage(st2, roomId, user.username \o STR_left \o room.name)
        st4 == IF user.activeRoom = roomId
               THEN socket_emit([st3 EXCEPT !.users[sock].activeRoom = STR_general],
                                sock, "active_room_changed", [roomId |-> STR_general])
               ELSE st3
        st5 == socket_to_emit(st4, sock, roomId, "room_user_left",
                 [roomId |-> roomId,
                  user |-> [id |-> user.id, username |-> user.username]])
        st6 == emitRoomList(st5)
    IN  Ack(st6, [ok |-> TRUE])

\* a mutant of send_message: a connection without a user posts as a guest
send_message_guest(st, sock, roomId, message) ==
  LET trimmed == IF Truthy(message) THEN trim(message) ELSE <<>>
  IN
  IF ~Truthy(roomId)
    THEN Ack(st, [ok |-> FALSE, error |-> "Room is required"])
  ELSE IF trimmed = <<>>
    THEN Ack(st, [ok |-> FALSE, error |-> "Message cannot be empty"])
  ELSE IF ~MapHas(st.rooms, roomId)
    THEN Ack(st, [ok |-> FALSE, error |-> "Room not found"])
  ELSE
    LET messageRecord == buildMessage(roomId,
                                      IF MapHas(st.users, sock) THEN st.users[sock]
                                      ELSE [id |-> sock, username |-> undefined],
                                      trimmed,
                                      FALSE, FALSE, st.nextId)
        st1 == addMessageToRoom([st EXCEPT !.nextId = @ + 1], roomId, messageRecord)
        st2 == io_to_emit(st1, roomId, "receive_message",
                          serializeMessage(messageRecord))
    IN  Ack(st2, [ok |-> TRUE, messageId |-> messageRecord.id])

\* a mutant of send_message: a room that does not exist is created before
\* the post is rejected
send_message_creating(st, sock, roomId, message) ==
  LET trimmed == IF Truthy(message) THEN trim(message) ELSE <<>>
  IN
  IF ~MapHas(st.users, sock)
    THEN Ack(st, [ok |-> FALSE, error |-> "Not authenticated"])
  ELSE IF ~Truthy(roomId)
    THEN Ack(st, [ok |-> FALSE, error |-> "Room is required"])
  ELSE IF trimmed = <<>>
    THEN Ack(st, [ok |-> FALSE, error |-> "Message cannot be empty"])
  ELSE IF ~MapHas(st.rooms, roomId)
    THEN Ack(createRoom(st, roomId, [id |-> roomId, name |-> undefined,
                                     description |-> undefined,
                                     createdBy |-> undefined]).st,
             [ok |-> FALSE, error |-> "Room not found"])
  ELSE
    LET messageRecord == buildMessage(roomId, st.users[sock], trimmed,
                                      FALSE, FALSE, st.nextId)
        st1 == addMessageToRoom([st EXCEPT !.nextId = @ + 1], roomId, messageRecord)
        st2 == io_to_emit(st1, roomId, "receive_message",
                          serializeMessage(messageRecord))
    IN  Ack(st2, [ok |-> TRUE, messageId |-> messageRecord.id])

\* a mutant of send_message: the message goes to the others in the room,
\* not to the sender
send_message_others(st, sock, roomId, message) ==
  LET trimmed == IF Truthy(message) THEN trim(message) ELSE <<>>
  IN
  IF ~MapHas(st.users, sock)
    THEN Ack(st, [ok |-> FALSE, error |-> "Not authenticated"])
  ELSE IF ~Truthy(roomId)
    THEN Ack(st, [ok |-> FALSE, error |-> "Room is required"])
  ELSE IF trimmed = <<>>
    THEN Ack(st, [ok |-> FALSE, error |-> "Message cannot be empty"])
  ELSE IF ~MapHas(st.rooms, roomId)
    THEN Ack(st, [ok |-> FALSE, error |-> "Room not found"])
  ELSE
    LET messageRecord == buildMessage(roomId, st.users[sock], trimmed,
                                      FALSE, FALSE, st.nextId)
        st1 == addMessageToRoom([st EXCEPT !.nextId = @ + 1], roomId, messageRecord)
        st2 == socket_to_emit(st1, sock, roomId, "receive_message",
                              serializeMessage(messageRecord))
    IN  Ack(st2, [ok |-> TRUE, messageId |-> messageRecord.id])

\* socket.on('send_message'): payload {roomId, message}
send_message(st, sock, roomId, message) ==
  LET trimmed == IF Truthy(message) THEN trim(message) ELSE <<>>
  IN
  IF ~MapHas(st.users, sock)
    THEN Ack(st, [ok |-> FALSE, error |-> "Not authenticated"])
  ELSE IF ~Truthy(roomId)
    THEN Ack(st, [ok |-> FALSE, error |-> "Room is required"])
  ELSE IF trimmed = <<>>
    THEN Ack(st, [ok |-> FALSE, error |-> "Message cannot be empty"])
  ELSE IF ~MapHas(st.rooms, roomId)
    THEN Ack(st, [ok |-> FALSE, error |-> "Room not found"])
  ELSE
    LET messageRecord == buildMessage(roomId, st.users[sock], trimmed,
                                      FALSE, FALSE, st.nextId)
        st1 == addMessageToRoom([st EXCEPT !.nextId = @ + 1], roomId, messageRecord)
        st2 == io_to_emit(st1, roomId, "receive_message",
                          serializeMessage(messageRecord))
    IN  Ack(st2, [ok |-> TRUE, messageId |-> messageRecord.id])

\* room.messages.find(item => item.id === messageId) is defined
HasMessage(messages, messageId) == findIndex(messages, messageId) >= 0

\* room.messages.find(item => item.id === messageId)
find(messages, messageId) == messages[findIndex(messages, messageId) + 1]

\* socket.on('message_delivered'): payload {messageId, roomId}
message_delivered(st, sock, messageId, roomId) ==
  IF ~MapHas(st.users, sock) \/ ~MapHas(st.rooms, roomId) THEN st
  ELSE IF ~HasMessage(st.rooms[roomId].messages, messageId) THEN st
  ELSE
    LET message == registerDelivered(find(st.rooms[roomId].messages, messageId),
                                     st.users[sock].username)
        st1 == [st EXCEPT !.rooms[roomId].messages =
                            ReplaceMessage(@, messageId, message)]
    IN  io_to_emit(st1, roomId, "message_delivery_update",
                   [roomId |-> roomId, messageId |-> messageId,
                    deliveredTo |-> message.deliveredTo])

\* socket.on('message_read'): payload {messageId, roomId}
message_read(st, sock, messageId, roomId) ==
  IF ~MapHas(st.users, sock) \/ ~MapHas(st.rooms, roomId) THEN st
  ELSE IF ~HasMessage(st.rooms[roomId].messages, messageId) THEN st
  ELSE
    LET message == registerRead(find(st.rooms[roomId].messages, messageId),
                                st.users[sock].username)
        st1 == [st EXCEPT !.rooms[roomId].messages =
                            ReplaceMessage(@, messageId, message)]
    IN  io_to_emit(st1, roomId, "message_read_update",
                   [roomId |-> roomId, messageId |-> messageId,
                    readBy |-> message.readBy])

\* socket.on('react_to_message'): payload {roomId, messageId, emoji}
react_to_message(st, sock, roomId, messageId, emoji) ==
  IF ~MapHas(st.users, sock) \/ ~MapHas(st.rooms, roomId) THEN st
  ELSE IF ~HasMessage(st.rooms[roomId].messages, messageId) THEN st
  ELSE
    LET message == toggleReaction(find(st.rooms[roomId].messages, messageId),
                                  emoji, st.users[sock].username)
        st1 == [st EXCEPT !.rooms[roomId].messages =
                            ReplaceMessage(@, messageId, message)]
    IN  io_to_emit(st1, roomId, "message_reaction_update",
                   [roomId |-> roomId, messageId |-> messageId,
                    reactions |-> message.reactions])

\* clearTimeout(typingTimers.get(key))
clearTimer(st, key) ==
  [st EXCEPT !.timers = clearTimeout(@, IF MapHas(st.typingTimers, key)
                                        THEN {st.typingTimers[key]} ELSE {})]

\* socket.on('typing'): payload {roomId, isTyping}
typing(st, sock, roomId, isTyping) ==
  IF ~MapHas(st.users, sock) \/ ~MapHas(st.rooms, roomId) THEN st
  ELSE
    LET username == st.users[sock].username
        key == sock \o STR_colon \o roomId
    IN
    IF isTyping
    THEN LET st1 == [st EXCEPT !.rooms[roomId].typing = @ \cup {username}]
             st2 == io_to_emit(st1, roomId, "typing_users",
                               [roomId |-> roomId, users |-> st1.rooms[roomId].typing])
             st3 == clearTimer(st2, key)
             timer == [handle |-> Len(st.armed) + 1, key |-> key,
                       roomId |-> roomId, username |-> username]
         IN  [st3 EXCEPT !.timers = @ \cup {timer},
                         !.armed = Append(@, timer),
                         !.typingTimers = MapSet(@, key, timer.handle)]
    ELSE LET st1 == [st EXCEPT !.rooms[roomId].typing = @ \ {username}]
             st2 == clearTimer(st1, key)
             st3 == [st2 EXCEPT !.typingTimers = MapDelete(@, key)]
         IN  io_to_emit(st3, roomId, "typing_users",
                        [roomId |-> roomId, users |-> st3.rooms[roomId].typing])

\* the callback of the setTimeout in the typing handler, run by the runtime
\* TYPING_TIMEOUT_MS after the call when the timeout is still pending
typingTimeout(st, timer) ==
  LET st1 == [st EXCEPT !.timers = @ \ {timer},
                        !.expired = @ \cup {timer.handle},
                        !.rooms[timer.roomId].typing = @ \ {timer.username},
                        !.typingTimers = MapDelete(@, timer.key)]
  IN  io_to_emit(st1, timer.roomId, "typing_users",
                 [roomId |-> timer.roomId, users |-> st1.rooms[timer.roomId].typing])

\* socket.on('private_typing'): payload {to, isTyping}
private_typing(st, sock, to, isTyping) ==
  IF ~MapHas(st.users, sock) \/ ~MapHas(st.usernameToSocketId, to) THEN st
  ELSE io_to_emit(st, st.usernameToSocketId[to], "private_typing",
                  [from |-> st.users[sock].username, isTyping |-> isTyping])

\* socket.on('set_active_room'): payload {roomId}
set_active_room(st, sock, roomId) ==
  IF ~MapHas(st.users, sock) \/ ~MapHas(st.rooms, roomId) THEN st
  ELSE [st EXCEPT !.users[sock].activeRoom = roomId]

\* Math.min(Number(limit) || 30, 100) for a limit that is absent or an integer
parseLimit(limit) ==
  LET given == IF limit.given THEN limit.num ELSE 30
      n == IF given = 0 THEN 30 ELSE given
  IN  IF n < 100 THEN n ELSE 100

\* the page computed by request_room_history and by GET /api/rooms/:roomId/messages
historyPage(messages, before, limit) ==
  LET parsedLimit == parseLimit(limit)
      beforeIndex == IF Truthy(before) THEN findIndex(messages, before) ELSE -1
      endIndex == IF beforeIndex = -1 THEN Len(messages) ELSE beforeIndex
      startIndex == IF endIndex - parsedLimit > 0 THEN endIndex - parsedLimit ELSE 0
      page == slice(messages, startIndex, endIndex)
      hasMore == startIndex > 0
      nextCursor == IF hasMore /\ startIndex - 1 < Len(messages)
                    THEN messages[startIndex].id ELSE null
  IN  [messages |-> [i \in 1..Len(page) |-> serializeMessage(page[i])],
       hasMore |-> hasMore,
       nextCursor |-> nextCursor]

\* socket.on('request_room_history'): payload {roomId, before, limit = 30}
request_room_history(st, sock, roomId, before, limit) ==
  IF ~MapHas(st.users, sock) \/ ~MapHas(st.rooms, roomId)
    THEN Ack(st, [ok |-> FALSE, error |-> "Room not found"])
  ELSE
    LET page == historyPage(st.rooms[roomId].messages, before, limit)
    IN  Ack(st, [ok |-> TRUE, roomId |-> roomId, messages |-> page.messages,
                 nextCursor |-> page.nextCursor, hasMore |-> page.hasMore])

\* app.get('/api/rooms/:roomId/messages'): the response body
get_room_messages(st, roomId, before, limit) ==
  IF ~MapHas(st.rooms, roomId)
    THEN [status |-> 404, error |-> "Room not found"]
  ELSE
    LET page == historyPage(st.rooms[roomId].messages, before, limit)
    IN  [status |-> 200, roomId |-> roomId, messages |-> page.messages,
         hasMore |-> page.hasMore, nextCursor |-> page.nextCursor]

\* a mutant of private_message: the message to an offline recipient is kept
\* in a thread of the sender and the recipient
private_message_queued(st, sock, to, message) ==
  LET trimmed == IF Truthy(message) THEN trim(message) ELSE <<>>
  IN
  IF ~MapHas(st.users, sock)
    THEN Ack(st, [ok |-> FALSE, error |-> "Not authenticated"])
  ELSE IF ~Truthy(to)
    THEN Ack(st, [ok |-> FALSE, error |-> "Recipient is required"])
  ELSE IF trimmed = <<>>
    THEN Ack(st, [ok |-> FALSE, error |-> "Message cannot be empty"])
  ELSE IF ~MapHas(st.usernameToSocketId, to)
          \/ ~MapHas(st.users, MapGet(st.usernameToSocketId, to))
    THEN LET key0 == makeThreadKey(st.users[sock].username, to)
             q == ensurePrivateThread(st, st.users[sock].username, to)
             held == buildMessage(key0, st.users[sock], trimmed, FALSE, TRUE, q.nextId)
         IN  Ack(addMessageToThread([q EXCEPT !.nextId = @ + 1], key0, held),
                 [ok |-> FALSE, error |-> "Recipient is offline"])
  ELSE
    LET user == st.users[sock]
        recipientSocketId == st.usernameToSocketId[to]
        recipientUser == st.users[recipientSocketId]
        key == makeThreadKey(user.username, recipientUser.username)
        st1 == ensurePrivateThread(st, user.username, recipientUser.username)
        built == buildMessage(key, user, trimmed, FALSE, TRUE, st1.nextId)
        st2 == addMessageToThread([st1 EXCEPT !.nextId = @ + 1], key, built)
        messageRecord == registerDelivered(built, recipientUser.username)
        st3 == [st2 EXCEPT !.privateThreads[key].messages =
                             ReplaceMessage(@, built.id, messageRecord)]
        thread == st3.privateThreads[key]
        serialized == serializeMessage(messageRecord)
        st4 == socket_emit(st3, sock, "private_message",
                 [thread |-> serializeThread(thread, user.username),
                  message |-> serialized])
        st5 == io_to_emit(st4, recipientSocketId, "private_message",
                 [thread |-> serializeThread(thread, recipientUser.username),
                  message |-> serialized])
        st6 == io_to_emit(st5, recipientSocketId, "private_notification",
                 [from |-> user.username, threadId |-> thread.id])
    IN  Ack(st6, [ok |-> TRUE, messageId |-> messageRecord.id, threadId |-> thread.id])

\* socket.on('private_message'): payload {to, message}
private_message(st, sock, to, message) ==
  LET trimmed == IF Truthy(message) THEN trim(message) ELSE <<>>
  IN
  IF ~MapHas(st.users, sock)
    THEN Ack(st, [ok |-> FALSE, error |-> "Not authenticated"])
  ELSE IF ~Truthy(to)
    THEN Ack(st, [ok |-> FALSE, error |-> "Recipient is required"])
  ELSE IF trimmed = <<>>
    THEN Ack(st, [ok |-> FALSE, error |-> "Message cannot be empty"])
  ELSE IF ~MapHas(st.usernameToSocketId, to)
          \/ ~MapHas(st.users, MapGet(st.usernameToSocketId, to))
    THEN Ack(st, [ok |-> FALSE, error |-> "Recipient is offline"])
  ELSE
    LET user == st.users[sock]
        recipientSocketId == st.usernameToSocketId[to]
        recipientUser == st.users[recipientSocketId]
        key == makeThreadKey(user.username, recipientUser.username)
        st1 == ensurePrivateThread(st, user.username, recipientUser.username)
        built == buildMessage(key, user, trimmed, FALSE, TRUE, st1.nextId)
        st2 == addMessageToThread([st1 EXCEPT !.nextId = @ + 1], key, built)
        messageRecord == registerDelivered(built, recipientUser.username)
        st3 == [st2 EXCEPT !.privateThreads[key].messages =
                             ReplaceMessage(@, built.id, messageRecord)]
        thread == st3.privateThreads[key]
        serialized == serializeMessage(messageRecord)
        st4 == socket_emit(st3, sock, "private_message",
                 [thread |-> serializeThread(thread, user.username),
                  message |-> serialized])
        st5 == io_to_emit(st4, recipientSocketId, "private_message",
                 [thread |-> serializeThread(thread, recipientUser.username),
                  message |-> serialized])
        st6 == io_to_emit(st5, recipientSocketId, "private_notification",
                 [from |-> user.username, threadId |-> thread.id])
    IN  Ack(st6, [ok |-> TRUE, messageId |-> messageRecord.id, threadId |-> thread.id])

\* thread.participants.forEach: emit to the socket bound to each participant
RECURSIVE emitToParticipants(_, _, _, _)
emitToParticipants(st, participants, event, data) ==
  IF participants = <<>> THEN st
  ELSE LET st1 == IF MapHas(st.usernameToSocketId, Head(participants))
                  THEN io_to_emit(st, st.usernameToSocketId[Head(participants)],
                                  event, data)
                  ELSE st
       IN  emitToParticipants(st1, Tail(participants), event, data)

\* socket.on('private_message_read'): payload {threadId, messageId}
private_message_read(st, sock, threadId, messageId) ==
  IF ~MapHas(st.users, sock) \/ ~MapHas(st.privateThreads, threadId) THEN st
  ELSE IF ~HasMessage(st.privateThreads[threadId].messages, messageId) THEN st
  ELSE
    LET message == registerRead(find(st.privateThreads[threadId].messages, messageId),
                                st.users[sock].username)
        st1 == [st EXCEPT !.privateThreads[threadId].messages =
                            ReplaceMessage(@, messageId, message)]
    IN  emitToParticipants(st1, st1.privateThreads[threadId].participants,
                           "private_read_receipt",
                           [threadId |-> threadId, messageId |-> messageId,
                            readBy |-> message.readBy])

\* socket.on('react_to_private_message'): payload {threadId, messageId, emoji}
react_to_private_message(st, sock, threadId, messageId, emoji) ==
  IF ~MapHas(st.users, sock) \/ ~MapHas(st.privateThreads, threadId) THEN st
  ELSE IF ~HasMessage(st.privateThreads[threadId].messages, messageId) THEN st
  ELSE
    LET message == toggleReaction(find(st.privateThreads[threadId].messages, messageId),
                                  emoji, st.users[sock].username)
        st1 == [st EXCEPT !.privateThreads[threadId].messages =
                            ReplaceMessage(@, messageId, message)]
    IN  emitToParticipants(st1, st1.privateThreads[threadId].participants,
                           "private_reaction_update",
                           [threadId |-> threadId, messageId |-> messageId,
                            reactions |-> message.reactions])

\* ------------------------------------------------------------------------
\* Initial state and actions
\* ------------------------------------------------------------------------

\* the state when DEFAULT_ROOMS.forEach(createRoom) has run
InitRooms ==
  [r \in {DEFAULT_ROOMS[i].id : i \in 1..Len(DEFAULT_ROOMS)} |->
     LET d == DEFAULT_ROOMS[CHOOSE i \in 1..Len(DEFAULT_ROOMS) : DEFAULT_ROOMS[i].id = r]
     IN  [id |-> d.id, name |-> d.name, description |-> d.description,
          createdBy |-> STR_system, messages |-> <<>>, members |-> {}, typing |-> {}]]

\* the maps when the module has been loaded
InitState ==
  [users |-> EmptyMap, usernameToSocketId |-> EmptyMap, rooms |-> InitRooms,
   privateThreads |-> EmptyMap, typingTimers |-> EmptyMap,
   timers |-> {}, armed |-> <<>>, expired |-> {},
   sockRooms |-> EmptyMap, closed |-> {}, nextId |-> 1,
   emitted |-> <<>>, ack |-> NoAck,
   roomHistory |-> [r \in DOMAIN InitRooms |-> <<>>], threadHistory |-> EmptyMap]

\* the variables hold the maps of st
Holds(st) ==
  /\ users = st.users
  /\ usernameToSocketId = st.usernameToSocketId
  /\ rooms = st.rooms
  /\ privateThreads = st.privateThreads
  /\ typingTimers = st.typingTimers
  /\ timers = st.timers
  /\ armed = st.armed
  /\ expired = st.expired
  /\ sockRooms = st.sockRooms
  /\ closed = st.closed
  /\ nextId = st.nextId
  /\ roomHistory = st.roomHistory
  /\ threadHistory = st.threadHistory

\* the clients before any of them has shown a typing user, set a
\* stop-typing timeout or set out to join
ClientInit ==
  /\ typingByThread = EmptyMap
  /\ composerTimeout = EmptyMap
  /\ usernameRef = EmptyMap
  /\ sendBuffer = {}
  /\ lost = {}

Init ==
  /\ Holds(InitState)
  /\ touched = {}
  /\ ClientInit
  /\ process = "running"
  /\ uuidLimit = MaxMessages + 1

\* An event is one step: h is the state its handler leaves behind.
\* a handler's result is taken when it stays within the uuid bound
Within(st) == st.nextId <= uuidLimit

\* a receipt or reaction event that changes a message counts it as touched
Touch(st, messageId) ==
  LET changed == st.rooms # rooms \/ st.privateThreads # privateThreads
  IN  /\ changed => Cardinality(touched \cup {messageId}) <= MaxTouched
      /\ touched' = IF changed THEN touched \cup {messageId} ELSE touched
      /\ UNCHANGED <<uuidLimit, client, process>>

\* io.on('connection'): a socket with a fresh id
Connect(sock) ==
  /\ sock \notin DOMAIN sockRooms
  /\ sock \notin closed
  /\ Becomes(connection(Cur, sock))
  /\ UNCHANGED <<touched, uuidLimit, client, process>>

UserJoin(sock, rawUsername) ==
  /\ sock \in DOMAIN sockRooms
  /\ \E h \in {user_join(Cur, sock, rawUsername)} :
       Within(h) /\ Becomes(h) /\ UNCHANGED <<touched, uuidLimit, client, process>>

Disconnect(sock) ==
  /\ sock \in DOMAIN sockRooms
  /\ \E h \in {disconnect(Cur, sock)} :
       Within(h) /\ Becomes(h) /\ UNCHANGED <<touched, uuidLimit, client, process>>

JoinRoom(sock, requestedRoom, roomName, description) ==
  /\ sock \in DOMAIN sockRooms
  /\ \E h \in {join_room(Cur, sock, requestedRoom, roomName, description)} :
       Within(h) /\ Becomes(h) /\ UNCHANGED <<touched, uuidLimit, client, process>>

LeaveRoom(sock, roomId) ==
  /\ sock \in DOMAIN sockRooms
  /\ \E h \in {leave_room(Cur, sock, roomId)} :
       Within(h) /\ Becomes(h) /\ UNCHANGED <<touched, uuidLimit, client, process>>

SendMessage(sock, roomId, message) ==
  /\ sock \in DOMAIN sockRooms
  /\ \E h \in {send_message(Cur, sock, roomId, message)} :
       Within(h) /\ Becomes(h) /\ UNCHANGED <<touched, uuidLimit, client, process>>

MessageDelivered(sock, messageId, roomId) ==
  /\ sock \in DOMAIN sockRooms
  /\ \E h \in {message_delivered(Cur, sock, messageId, roomId)} :
       Becomes(h) /\ Touch(h, messageId)

MessageRead(sock, messageId, roomId) ==
  /\ sock \in DOMAIN sockRooms
  /\ \E h \in {message_read(Cur, sock, messageId, roomId)} :
       Becomes(h) /\ Touch(h, messageId)

ReactToMessage(sock, roomId, messageId, emoji) ==
  /\ sock \in DOMAIN sockRooms
  /\ \E h \in {react_to_message(Cur, sock, roomId, messageId, emoji)} :
       Becomes(h) /\ Touch(h, messageId)

PrivateMessage(sock, to, message) ==
  /\ sock \in DOMAIN sockRooms
  /\ \E h \in {private_message(Cur, sock, to, message)} :
       Within(h) /\ Becomes(h) /\ UNCHANGED <<touched, uuidLimit, client, process>>

Typing(sock, roomId, isTyping) ==
  /\ sock \in DOMAIN sockRooms
  /\ \E h \in {typing(Cur, sock, roomId, isTyping)} :
       Len(h.armed) <= MaxTimers /\ Becomes(h) /\ UNCHANGED <<touched, uuidLimit, client, process>>

\* a pending timeout fires
TypingTimeout(timer) ==
  /\ timer \in timers
  /\ \E h \in {typingTimeout(Cur, timer)} :
       Becomes(h) /\ UNCHANGED <<touched, uuidLimit, client, process>>

SetActiveRoom(sock, roomId) ==
  /\ sock \in DOMAIN sockRooms
  /\ \E h \in {set_active_room(Cur, sock, roomId)} :
       Becomes(h) /\ UNCHANGED <<touched, uuidLimit, client, process>>

RequestRoomHistory(sock, roomId, before, limit) ==
  /\ sock \in DOMAIN sockRooms
  /\ \E h \in {request_room_history(Cur, sock, roomId, before, limit)} :
       Within(h) /\ Becomes(h) /\ UNCHANGED <<touched, uuidLimit, client, process>>

\* the REST request reads the rooms and answers
GetRoomMessages(roomId, before, limit) ==
  /\ \E res \in {get_room_messages(Cur, roomId, before, limit)} :
       res.status \in {200, 404}
  /\ UNCHANGED vars

PrivateMessageRead(sock, threadId, messageId) ==
  /\ sock \in DOMAIN sockRooms
  /\ \E h \in {private_message_read(Cur, sock, threadId, messageId)} :
       Becomes(h) /\ Touch(h, messageId)

ReactToPrivateMessage(sock, threadId, messageId, emoji) ==
  /\ sock \in DOMAIN sockRooms
  /\ \E h \in {react_to_private_message(Cur, sock, threadId, messageId, emoji)} :
       Becomes(h) /\ Touch(h, messageId)

Next ==
  \/ \E sock \in Sockets : Connect(sock)
  \/ \E sock \in Sockets, rawUsername \in Usernames : UserJoin(sock, rawUsername)
  \/ \E sock \in Sockets : Disconnect(sock)
  \/ \E sock \in Sockets, requestedRoom \in RoomIdInputs, roomName \in RoomNameInputs :
       JoinRoom(sock, requestedRoom, roomName, undefined)
  \/ \E sock \in Sockets, roomId \in RoomIds : LeaveRoom(sock, roomId)
  \/ \E sock \in Sockets, roomId \in RoomIds, message \in Messages :
       SendMessage(sock, roomId, message)
  \/ \E sock \in Sockets, to \in Usernames, message \in Messages :
       PrivateMessage(sock, to, message)

\* the events of Next on the rooms "general" and "random" only
NextRooms ==
  \/ \E sock \in Sockets : Connect(sock)
  \/ \E sock \in Sockets, rawUsername \in Usernames : UserJoin(sock, rawUsername)
  \/ \E sock \in Sockets : Disconnect(sock)
  \/ \E sock \in Sockets : JoinRoom(sock, STR_random, undefined, undefined)
  \/ \E sock \in Sockets, roomId \in {STR_general, STR_random} : LeaveRoom(sock, roomId)
  \/ \E sock \in Sockets, message \in Messages : SendMessage(sock, STR_general, message)
  \/ \E sock \in Sockets, to \in Usernames, message \in Messages :
       PrivateMessage(sock, to, message)

\* the receipt and reaction events
NextReceipts ==
  \/ \E sock \in Sockets, messageId \in MessageIds, roomId \in {STR_general, STR_random} :
       MessageDelivered(sock, messageId, roomId)
  \/ \E sock \in Sockets, messageId \in MessageIds, roomId \in {STR_general, STR_random} :
       MessageRead(sock, messageId, roomId)
  \/ \E sock \in Sockets, roomId \in {STR_general, STR_random}, messageId \in MessageIds,
        emoji \in Emojis :
       ReactToMessage(sock, roomId, messageId, emoji)
  \/ \E sock \in Sockets, threadId \in ThreadIdInputs, messageId \in MessageIds :
       PrivateMessageRead(sock, threadId, messageId)
  \/ \E sock \in Sockets, threadId \in ThreadIdInputs, messageId \in MessageIds,
        emoji \in Emojis :
       ReactToPrivateMessage(sock, threadId, messageId, emoji)

Spec == Init /\ [][Next]_vars

SpecReceipts == Init /\ [][NextRooms \/ NextReceipts]_vars

\* the maps after k send_message events {roomId, message} of an authenticated
\* socket in an existing room: k times buildMessage and addMessageToRoom
sendMany(st, sock, roomId, message, k) ==
  LET sent == [i \in 1..k |->
                 buildMessage(roomId, st.users[sock], trim(message),
                              FALSE, FALSE, st.nextId + i - 1)]
  IN  [st EXCEPT
         !.nextId = @ + k,
         !.rooms[roomId].messages = trimMessages(@ \o sent, MAX_ROOM_MESSAGES),
         !.roomHistory[roomId] = @ \o [i \in 1..k |-> sent[i].id]]

\* the maps after k private_message events {to, message} of an authenticated
\* socket to a user who is online: ensurePrivateThread, then k times
\* buildMessage, addMessageToThread and registerDelivered
privateMany(st, sock, to, message, k) ==
  LET key == makeThreadKey(st.users[sock].username, to)
      st1 == ensurePrivateThread(st, st.users[sock].username, to)
      sent == [i \in 1..k |->
                 registerDelivered(
                   buildMessage(key, st.users[sock], trim(message),
                                FALSE, TRUE, st.nextId + i - 1),
                   to)]
  IN  [st1 EXCEPT
         !.nextId = @ + k,
         !.privateThreads[key].messages =
            trimMessages(@ \o sent, MAX_PRIVATE_MESSAGES),
         !.threadHistory[key] = @ \o [i \in 1..k |-> sent[i].id]]

\* the maps after "a" has joined on s1 and "b" on s2
TwoJoined ==
  user_join(connection(user_join(connection(InitState, <<115, 49>>),
                                 <<115, 49>>, <<97>>),
                       <<115, 50>>),
            <<115, 50>>, <<98>>)

\* a running server whose logs are one message short of their capacity: "a"
\* and "b" have joined, "a" has filled the log of "general" up to
\* MAX_ROOM_MESSAGES - 1 messages and has sent MAX_PRIVATE_MESSAGES - 1
\* private messages to "b"
NearlyFull ==
  privateMany(sendMany(TwoJoined, <<115, 49>>, STR_general, <<104, 105>>,
                       MAX_ROOM_MESSAGES - 1 - Len(TwoJoined.rooms[STR_general].messages)),
              <<115, 49>>, <<98>>, <<104, 105>>, MAX_PRIVATE_MESSAGES - 1)

InitLog ==
  /\ Holds(NearlyFull)
  /\ touched = {}
  /\ ClientInit
  /\ process = "running"
  /\ uuidLimit = NearlyFull.nextId + MaxLogMessages

\* connections, joins, disconnects and private messages under the accented
\* usernames
NextNames ==
  \/ \E sock \in Sockets : Connect(sock)
  \/ \E sock \in Sockets, rawUsername \in AccentedUsernames : UserJoin(sock, rawUsername)
  \/ \E sock \in Sockets : Disconnect(sock)
  \/ \E sock \in Sockets, to \in AccentedUsernames, message \in Messages :
       PrivateMessage(sock, to, message)

SpecNames == Init /\ [][NextNames]_vars

\* the maps after "a" has joined on s1
OneJoined == user_join(connection(InitState, <<115, 49>>), <<115, 49>>, <<97>>)

\* a running server where "a" has written to "general": the log holds n
\* messages, the system message of the join and the posts of "a"
Written(n) ==
  sendMany(OneJoined, <<115, 49>>, STR_general, <<104, 105>>,
           n - Len(OneJoined.rooms[STR_general].messages))

InitHistory ==
  \E n \in 1..MaxHistory :
     /\ Holds(Written(n))
     /\ touched = {}
     /\ ClientInit
     /\ process = "running"
     /\ uuidLimit = Written(n).nextId + MaxLogMessages

\* limits a history request carries: none, 2 and 30
LimitRequests ==
  {[given |-> FALSE, num |-> 0], [given |-> TRUE, num |-> 2], [given |-> TRUE, num |-> 30]}

\* history requests, over the socket and over REST, between posts
NextHistory ==
  \/ \E message \in Messages : SendMessage(<<115, 49>>, STR_general, message)
  \/ \E roomId \in {STR_general, STR_random}, before \in {undefined, uuidv4(2)},
        limit \in LimitRequests :
       RequestRoomHistory(<<115, 49>>, roomId, before, limit)
  \/ \E roomId \in RoomIds, before \in {undefined, uuidv4(2)}, limit \in LimitRequests :
       GetRoomMessages(roomId, before, limit)

SpecHistory == InitHistory /\ [][NextHistory]_vars

\* joins, leaves and disconnects, typing events and the expiry of timeouts
NextTyping ==
  \/ \E sock \in Sockets, rawUsername \in Usernames : UserJoin(sock, rawUsername)
  \/ \E sock \in Sockets : Disconnect(sock)
  \/ \E sock \in Sockets : JoinRoom(sock, STR_random, undefined, undefined)
  \/ \E sock \in Sockets, roomId \in {STR_general, STR_random} : LeaveRoom(sock, roomId)
  \/ \E sock \in Sockets, roomId \in {STR_general, STR_random}, isTyping \in BOOLEAN :
       Typing(sock, roomId, isTyping)
  \/ \E timer \in timers : TypingTimeout(timer)

\* "a" has joined on s1 and "b" on s2
InitTyping ==
  /\ Holds(TwoJoined)
  /\ touched = {}
  /\ ClientInit
  /\ process = "running"
  /\ uuidLimit = TwoJoined.nextId + MaxLogMessages

SpecTyping == InitTyping /\ [][NextTyping]_vars

\* the events of NextTyping, with the runtime running the callback of a
\* timeout that stays pending
SpecExpiry ==
  /\ InitTyping
  /\ [][NextTyping]_vars
  /\ WF_vars(\E timer \in timers : TypingTimeout(timer))

\* typing events with isTyping = true and the expiry of timeouts, nothing else
NextDebounce ==
  \/ \E sock \in Sockets, roomId \in {STR_general, STR_random} :
       Typing(sock, roomId, TRUE)
  \/ \E timer \in timers : TypingTimeout(timer)

\* the runtime runs the callback of a timeout that stays pending
SpecDebounce ==
  /\ InitTyping
  /\ [][NextDebounce]_vars
  /\ WF_vars(\E timer \in timers : TypingTimeout(timer))

\* "a" on s1 and "b" on s2 have joined, "a" has posted in "general" and has
\* sent "b" a private message
Chatting ==
  privateMany(sendMany(TwoJoined, <<115, 49>>, STR_general, <<104, 105>>, 1),
              <<115, 49>>, <<98>>, <<104, 105>>, 1)

InitAuth ==
  /\ Holds(Chatting)
  /\ touched = {}
  /\ ClientInit
  /\ process = "running"
  /\ uuidLimit = Chatting.nextId + MaxLogMessages

\* a third connection, which sends no user_join
Guest == <<115, 51>>

\* ids of the two messages of Chatting
ChatMessageIds == {uuidv4(Chatting.nextId - 2), uuidv4(Chatting.nextId - 1)}

\* the users chat on; the third connection comes, sends every event without
\* having joined, and goes
NextAuth ==
  \/ Connect(Guest)
  \/ \E sock \in Sockets \cup {Guest} : Disconnect(sock)
  \/ \E sock \in Sockets \cup {Guest} : JoinRoom(sock, STR_random, undefined, undefined)
  \/ \E sock \in Sockets \cup {Guest} : LeaveRoom(sock, STR_general)
  \/ \E sock \in Sockets \cup {Guest}, message \in Messages :
       SendMessage(sock, STR_general, message)
  \/ \E sock \in Sockets \cup {Guest}, to \in Usernames, message \in Messages :
       PrivateMessage(sock, to, message)
  \/ \E sock \in Sockets \cup {Guest}, messageId \in ChatMessageIds, emoji \in Emojis :
       ReactToMessage(sock, STR_general, messageId, emoji)
  \/ \E messageId \in ChatMessageIds : MessageDelivered(Guest, messageId, STR_general)
  \/ \E messageId \in ChatMessageIds : MessageRead(Guest, messageId, STR_general)
  \/ \E isTyping \in BOOLEAN : Typing(Guest, STR_general, isTyping)
  \/ \E threadId \in ThreadIdInputs, messageId \in ChatMessageIds :
       PrivateMessageRead(Guest, threadId, messageId)
  \/ \E threadId \in ThreadIdInputs, messageId \in ChatMessageIds, emoji \in Emojis :
       ReactToPrivateMessage(Guest, threadId, messageId, emoji)
  \/ SetActiveRoom(Guest, STR_random)

SpecAuth == InitAuth /\ [][NextAuth]_vars

\* the events on the two sockets of NearlyFull, both connected from the start
NextLog ==
  \/ \E sock \in Sockets, rawUsername \in Usernames : UserJoin(sock, rawUsername)
  \/ \E sock \in Sockets : Disconnect(sock)
  \/ \E sock \in Sockets : JoinRoom(sock, STR_random, undefined, undefined)
  \/ \E sock \in Sockets, roomId \in {STR_general, STR_random} : LeaveRoom(sock, roomId)
  \/ \E sock \in Sockets, message \in Messages : SendMessage(sock, STR_general, message)
  \/ \E sock \in Sockets, to \in Usernames, message \in Messages :
       PrivateMessage(sock, to, message)

SpecLog == InitLog /\ [][NextLog]_vars

\* ------------------------------------------------------------------------
\* Inputs the properties range over (those of Next, and the rejected ones)
\* ------------------------------------------------------------------------

\* user_join payloads: the usernames, " a", " ", "" and none
UsernameInputs == Usernames \cup {<<32, 97>>, <<32>>, <<>>, undefined}

\* the sockets that are connected
Connected == DOMAIN sockRooms

\* the usernames of the live User records
LiveUsernames == {users[s].username : s \in DOMAIN users}

\* the code's state, without the emissions and the acknowledgement
Maps(st) ==
  <<st.users, st.usernameToSocketId, st.rooms, st.privateThreads, st.typingTimers,
    st.timers,
    st.sockRooms, st.closed, st.nextId>>

\* usernames of the thread model: "a", "b" and "c"
ThreadUsernames == Usernames \cup {<<99>>}

\* "a" and "b" have a thread with one message
InitThreads ==
  /\ Holds(Chatting)
  /\ touched = {}
  /\ ClientInit
  /\ process = "running"
  /\ uuidLimit = Chatting.nextId + MaxMessages

\* the users go, a third connection comes, connections join under the
\* names "a", "b" and "c", and users send private messages
NextThreads ==
  \/ Connect(Guest)
  \/ \E sock \in Sockets \cup {Guest} : Disconnect(sock)
  \/ \E sock \in Sockets \cup {Guest}, rawUsername \in ThreadUsernames :
       UserJoin(sock, rawUsername)
  \/ \E sock \in Sockets \cup {Guest}, to \in ThreadUsernames, message \in Messages :
       PrivateMessage(sock, to, message)

SpecThreads == InitThreads /\ [][NextThreads]_vars

\* ------------------------------------------------------------------------
\* Clients: private typing
\* ------------------------------------------------------------------------

\* handlePrivateTyping({from, isTyping}) with SET_TYPING_THREAD: the
\* typingByThread of a client whose user is `username`
handlePrivateTyping(state, username, from, isTyping) ==
  LET threadId == makeThreadId(username, from)
      shown == IF MapHas(state, threadId) THEN state[threadId] ELSE {}
  IN  MapSet(state, threadId, IF isTyping THEN shown \cup {from} ELSE shown \ {from})

\* the typingByThread of the clients once the private_typing event a
\* handler has emitted (at most one) has reached the clients it went to; a
\* client without a user ignores it
receivePrivateTyping(h) ==
  IF h.emitted = <<>> THEN typingByThread
  ELSE LET e == h.emitted[1]
           receivers == {r \in e.to : MapHas(users, r)}
       IN  [r \in DOMAIN typingByThread \cup receivers |->
              IF r \in receivers
              THEN handlePrivateTyping(
                     IF MapHas(typingByThread, r) THEN typingByThread[r] ELSE EmptyMap,
                     users[r].username, e.data.from, e.data.isTyping)
              ELSE typingByThread[r]]

\* emitTyping(isTyping) of the composer of a joined client whose active
\* conversation is the thread with `to`: setPrivateTyping emits
\* private_typing, the server relays it, and the stop-typing timeout is set
\* anew (true) or cleared (false).  A composer with a pending timeout is
\* the one of the conversation the timeout was set in: the cleanup of its
\* effect stops the typing before the conversation changes.
EmitTyping(sock, to, isTyping) ==
  /\ sock \in DOMAIN users
  /\ MapHas(composerTimeout, sock) => composerTimeout[sock] = to
  /\ \E h \in {private_typing(Cur, sock, to, isTyping)} :
       /\ Becomes(h)
       /\ typingByThread' = receivePrivateTyping(h)
  /\ composerTimeout' = IF isTyping THEN MapSet(composerTimeout, sock, to)
                        ELSE MapDelete(composerTimeout, sock)
  /\ UNCHANGED <<touched, uuidLimit, usernameRef, sendBuffer, lost, process>>

\* the stop-typing timeout of a composer fires: onTyping(false).  The
\* event of a client whose connection is gone reaches no handler.
ComposerTimeout(sock) ==
  /\ MapHas(composerTimeout, sock)
  /\ composerTimeout' = MapDelete(composerTimeout, sock)
  /\ \E h \in {IF sock \in DOMAIN sockRooms
                THEN private_typing(Cur, sock, composerTimeout[sock], FALSE)
                ELSE Cur} :
       /\ Becomes(h)
       /\ typingByThread' = receivePrivateTyping(h)
  /\ UNCHANGED <<touched, uuidLimit, usernameRef, sendBuffer, lost, process>>

\* users type in their private threads, stop, and disconnect
NextPrivateTyping ==
  \/ \E sock \in Sockets, to \in Usernames, isTyping \in BOOLEAN :
       EmitTyping(sock, to, isTyping)
  \/ \E sock \in Sockets : ComposerTimeout(sock)
  \/ \E sock \in Sockets : Disconnect(sock)
  \/ \E sock \in Sockets, to \in Usernames, message \in Messages :
       PrivateMessage(sock, to, message)

\* the browser runs the callback of a timeout that stays pending
SpecPrivateTyping ==
  /\ InitTyping
  /\ [][NextPrivateTyping]_vars
  /\ \A sock \in Sockets : WF_vars(ComposerTimeout(sock))

\* ------------------------------------------------------------------------
\* Clients: reconnection
\* ------------------------------------------------------------------------

\* ids of the connections clients open when they reconnect
ReconnectSockets == {Guest, <<115, 52>>}

\* the transport of a joined client is lost.  The client sees 'disconnect',
\* its auto-connect effect calls connect(usernameRef.current): the socket
\* connects anew (its id will be `next`) and user_join is emitted into the
\* send buffer.  The server still holds the old connection.
TransportLost(sock, next) ==
  /\ sock \in DOMAIN users
  /\ sock \notin lost
  /\ next \notin DOMAIN usernameRef
  /\ next \notin DOMAIN sockRooms \cup closed
  /\ lost' = lost \cup {sock}
  /\ usernameRef' = MapSet(usernameRef, next, users[sock].username)
  /\ sendBuffer' = sendBuffer \cup {next}
  /\ UNCHANGED <<users, usernameToSocketId, rooms, privateThreads, typingTimers, timers,
                 armed, expired, sockRooms, closed, nextId, roomHistory, threadHistory,
                 touched, uuidLimit, typingByThread, composerTimeout, process>>

\* the server receives the user_join of a connection that is open and
\* acknowledges it; on ok:false the client forgets the username
\* (usernameRef.current = null) and its auto-connect effect does nothing
ReceiveJoin(sock) ==
  /\ sock \in sendBuffer
  /\ sock \in DOMAIN sockRooms
  /\ sendBuffer' = sendBuffer \ {sock}
  /\ \E h \in {user_join(Cur, sock, usernameRef[sock])} :
       /\ Within(h)
       /\ Becomes(h)
       /\ usernameRef' = IF h.ack[1].ok THEN usernameRef
                         ELSE MapSet(usernameRef, sock, null)
  /\ UNCHANGED <<touched, uuidLimit, typingByThread, composerTimeout, lost, process>>

\* the server notices that the transport of a connection is lost (the
\* heartbeat times out) and runs the disconnect handler
TransportClosed(sock) ==
  /\ sock \in lost
  /\ sock \in DOMAIN sockRooms
  /\ closed' = closed \cup {sock}
  /\ Disconnect(sock)

\* "a" and "b" are joined; transports are lost, the clients reconnect and
\* join again, and the server comes to process the disconnect of a lost
\* connection
NextReconnect ==
  \/ \E sock \in Sockets, next \in ReconnectSockets : TransportLost(sock, next)
  \/ \E sock \in DOMAIN usernameRef : Connect(sock)
  \/ \E sock \in ReconnectSockets : ReceiveJoin(sock)
  \/ \E sock \in Sockets \cup ReconnectSockets : TransportClosed(sock)

InitReconnect ==
  /\ Holds(TwoJoined)
  /\ touched = {}
  /\ ClientInit
  /\ process = "running"
  /\ uuidLimit = TwoJoined.nextId + MaxMessages + MaxLogMessages

\* the part of ReceiveJoin that takes the buffered emit off the transport;
\* every step of NextReconnect that is a JoinDelivered(sock) step is a
\* ReceiveJoin(sock) step, and ReceiveJoin(sock) is enabled whenever its
\* first two conjuncts hold
JoinDelivered(sock) ==
  /\ sock \in sendBuffer
  /\ sock \in DOMAIN sockRooms
  /\ sendBuffer' = sendBuffer \ {sock}

\* the part of TransportClosed that closes the connection
Closing(sock) ==
  /\ sock \in lost
  /\ sock \in DOMAIN sockRooms
  /\ closed' = closed \cup {sock}

\* the network opens the connection a client asks for, delivers what the
\* client has emitted, and the server notices a transport that is lost
SpecReconnect ==
  /\ InitReconnect
  /\ [][NextReconnect]_vars
  /\ \A sock \in ReconnectSockets :
       /\ WF_vars(sock \in DOMAIN usernameRef /\ Connect(sock))
       /\ WF_sendBuffer(JoinDelivered(sock))
  /\ \A sock \in Sockets : WF_closed(Closing(sock))

\* ------------------------------------------------------------------------
\* Dispatcher: events that carry no payload
\* ------------------------------------------------------------------------

\* the events whose listener takes its first argument apart in its
\* parameter list, as in socket.on('leave_room', ({ roomId }, ack) => ...)
Destructuring ==
  {"leave_room", "message_delivered", "message_read", "react_to_message", "typing",
   "request_room_history", "private_typing", "private_message_read",
   "react_to_private_message", "set_active_room"}

\* the events whose listener reads `payload || {}` or `payload?.username`
Defaulting == {"user_join", "join_room", "send_message", "private_message"}

\* the listener of a Defaulting event on a payload that is undefined or
\* null: every field it reads is undefined
withoutPayload(st, sock, event) ==
  CASE event = "user_join" -> user_join(st, sock, undefined)
    [] event = "join_room" -> join_room(st, sock, undefined, undefined, undefined)
    [] event = "send_message" -> send_message(st, sock, undefined, undefined)
    [] event = "private_message" -> private_message(st, sock, undefined, undefined)

\* a connection emits an event with no payload (undefined or null).  In a
\* Destructuring listener the parameter pattern throws a TypeError before
\* the first statement; the listener is called without a try, the process
\* has no 'uncaughtException' listener (the error middleware at the end of
\* server.js serves HTTP requests only), and the process ends.
EmitWithoutPayload(sock, event) ==
  /\ process = "running"
  /\ sock \in DOMAIN sockRooms
  /\ IF event \in Destructuring
     THEN /\ process' = "uncaughtException"
          /\ Becomes(Cur)
          /\ UNCHANGED <<touched, uuidLimit, client>>
     ELSE \E h \in {withoutPayload(Cur, sock, event)} :
            Within(h) /\ Becomes(h) /\ UNCHANGED <<touched, uuidLimit, client, process>>

\* connections come, join, post and go while the process runs, and emit
\* events without payload
NextDispatch ==
  \/ \E sock \in Sockets : process = "running" /\ Connect(sock)
  \/ \E sock \in Sockets, rawUsername \in Usernames :
       process = "running" /\ UserJoin(sock, rawUsername)
  \/ \E sock \in Sockets : process = "running" /\ Disconnect(sock)
  \/ \E sock \in Sockets, message \in Messages :
       process = "running" /\ SendMessage(sock, STR_general, message)
  \/ \E sock \in Sockets, event \in Destructuring \cup Defaulting :
       EmitWithoutPayload(sock, event)

SpecDispatch == Init /\ [][NextDispatch]_vars

\* ------------------------------------------------------------------------
\* Rooms named after connections
\* ------------------------------------------------------------------------

\* "a" and "b" chat in private; a third connection comes, joins as a user
\* and asks join_room for the ids of the other connections, which
\* emitUserList has sent to it with the user list
NextEavesdrop ==
  \/ Connect(Guest)
  \/ Disconnect(Guest)
  \/ \E rawUsername \in ThreadUsernames : UserJoin(Guest, rawUsername)
  \/ \E requestedRoom \in Sockets : JoinRoom(Guest, requestedRoom, undefined, undefined)
  \/ \E sock \in Sockets \cup {Guest}, to \in ThreadUsernames, message \in Messages :
       PrivateMessage(sock, to, message)
  \/ \E sock \in Sockets \cup {Guest}, threadId \in ThreadIdInputs,
        messageId \in ChatMessageIds :
       PrivateMessageRead(sock, threadId, messageId)

SpecEavesdrop == InitThreads /\ [][NextEavesdrop]_vars

\* ------------------------------------------------------------------------
\* Usernames that contain the separator of thread keys
\* ------------------------------------------------------------------------

\* four connections
KeySockets == Sockets \cup {Guest, <<115, 52>>}

\* the username each of them asks for: "a::b", "c", "a" and "b::c"
KeyName(sock) ==
  CASE sock = <<115, 49>> -> <<97, 58, 58, 98>>
    [] sock = <<115, 50>> -> <<99>>
    [] sock = Guest -> <<97>>
    [] OTHER -> <<98, 58, 58, 99>>

\* the connections join under their names; "a::b" and "a" send private
\* messages to "c" and to "b::c"
NextKeys ==
  \/ \E sock \in KeySockets : UserJoin(sock, KeyName(sock))
  \/ \E sock \in {<<115, 49>>, Guest}, to \in {<<99>>, <<98, 58, 58, 99>>},
        message \in Messages :
       PrivateMessage(sock, to, message)

\* the four connections are open
FourConnected ==
  connection(connection(connection(connection(InitState, <<115, 49>>), <<115, 50>>),
                        Guest), <<115, 52>>)

\* each user_join appends a system message to "general"
InitKeys ==
  /\ Holds(FourConnected)
  /\ touched = {}
  /\ ClientInit
  /\ process = "running"
  /\ uuidLimit = InitState.nextId + Cardinality(KeySockets) + MaxMessages - 1

SpecKeys == InitKeys /\ [][NextKeys]_vars

\* ------------------------------------------------------------------------
\* Properties
\* ------------------------------------------------------------------------

\* C1: no two live User records have the same username, and a user_join
\* whose (trimmed) username a live user holds is acknowledged with ok:false,
\* 'That username is already in use', and changes no map.
UsernameUnique ==
  /\ \A s \in DOMAIN users, t \in DOMAIN users :
       users[s].username = users[t].username => s = t
  /\ \A sock \in Connected, raw \in UsernameInputs :
       (Truthy(raw) /\ trim(raw) \in LiveUsernames) =>
          LET r == user_join(Cur, sock, raw)
          IN  /\ r.ack = <<[ok |-> FALSE, error |-> "That username is already in use"]>>
              /\ Maps(r) = Maps(Cur)
              /\ r.emitted = <<>>

\* C1 witness: a live user holds a name while another socket, with no user
\* of its own, is connected and can ask for the same name
UsernameUniqueWitness ==
  \E s \in DOMAIN users, t \in Connected : t # s /\ t \notin DOMAIN users

\* C2: once a connection has disconnected it has no User record, no
\* username is bound to it any more, and user_join with a username that no
\* connection still holds succeeds.
UsernameRelease ==
  /\ \A c \in closed : c \notin DOMAIN users
  /\ \A u \in DOMAIN usernameToSocketId : usernameToSocketId[u] \notin closed
  /\ \A sock \in Connected, u \in Usernames :
       (\A x \in DOMAIN usernameToSocketId :
           x = u => usernameToSocketId[x] \in closed) =>
          user_join(Cur, sock, u).ack[1].ok

\* the ids of a log's messages, in log order
Ids(messages) == [i \in 1..Len(messages) |-> messages[i].id]

\* C3: the log of every room holds at most 250 messages and the log of
\* every private thread holds at most 250 messages, system messages
\* included, in every state; and a handler emits only after
\* addMessageToRoom or addMessageToThread has returned, where the log it has
\* appended to holds at most 250 messages as well (push and trim are not
\* seen half-done).
LogBound ==
  /\ \A r \in DOMAIN rooms : Len(rooms[r].messages) <= 250
  /\ \A k \in DOMAIN privateThreads : Len(privateThreads[k].messages) <= 250
  /\ \A r \in DOMAIN rooms, s \in DOMAIN users :
       LET message == buildMessage(r, users[s], <<104, 105>>, FALSE, FALSE, nextId)
       IN  Len(addMessageToRoom(Cur, r, message).rooms[r].messages) <= 250
  /\ \A k \in DOMAIN privateThreads, s \in DOMAIN users :
       LET message == buildMessage(k, users[s], <<104, 105>>, FALSE, TRUE, nextId)
       IN  Len(addMessageToThread(Cur, k, message).privateThreads[k].messages) <= 250

\* C3 witness: a room log that has been trimmed: it holds 250 messages and
\* more than 250 have been appended to it
LogBoundWitness ==
  \E r \in DOMAIN rooms :
     Len(rooms[r].messages) = 250 /\ Len(roomHistory[r]) > 250

\* C4: every log is the suffix of the sequence of all messages appended to
\* its conversation, of the capacity's length once more than capacity have
\* been appended: the most recent ones, in arrival order.
LogRetention ==
  /\ \A r \in DOMAIN rooms :
       Ids(rooms[r].messages) = lastN(roomHistory[r], 250)
  /\ \A k \in DOMAIN privateThreads :
       Ids(privateThreads[k].messages) = lastN(threadHistory[k], 250)

\* C4 witness: a thread log that has lost its oldest message
LogRetentionWitness ==
  \E k \in DOMAIN privateThreads :
     /\ Len(threadHistory[k]) > 250
     /\ Len(privateThreads[k].messages) = 250
     /\ privateThreads[k].messages[1].id = threadHistory[k][Len(threadHistory[k]) - 249]

\* C5: for all usernames A and B the thread key of (A, B) is the key of
\* (B, A), so that a private message from A to B and one from B to A are
\* appended to one thread, and the client's makeThreadId gives the server's
\* makeThreadKey.
ThreadSymmetry ==
  /\ \A A \in LiveUsernames, B \in LiveUsernames :
       /\ makeThreadKey(A, B) = makeThreadKey(B, A)
       /\ makeThreadId(A, B) = makeThreadKey(A, B)
  /\ \A s \in DOMAIN users, t \in DOMAIN users :
       (/\ usernameToSocketId[users[s].username] = s
        /\ usernameToSocketId[users[t].username] = t) =>
          LET there == private_message(Cur, s, users[t].username, <<104, 105>>)
              back  == private_message(there, t, users[s].username, <<104, 105>>)
          IN  \E k \in DOMAIN back.privateThreads :
                 {there.ack[1].messageId, back.ack[1].messageId}
                    \subseteq Range(back.threadHistory[k])

\* emojis a reaction payload names: thumbs-up and the heart U+2764
EmojiInputs == Emojis \cup {<<10084>>}

\* the usernames under emoji in a reactions map, none when the emoji is absent
Holders(reactions, emoji) ==
  IF MapHas(reactions, emoji) THEN reactions[emoji] ELSE {}

\* message `after` is message `before` with username added under emoji and
\* nothing else changed
AddsExactly(before, after, emoji, username) ==
  /\ DOMAIN after.reactions = DOMAIN before.reactions \cup {emoji}
  /\ after.reactions[emoji] = Holders(before.reactions, emoji) \cup {username}
  /\ \A f \in DOMAIN before.reactions \ {emoji} :
        after.reactions[f] = before.reactions[f]
  /\ [after EXCEPT !.reactions = before.reactions] = before

\* C6: for every message of a room or thread log, every emoji and every
\* live user: when the user has not reacted with the emoji, one
\* react_to_message (react_to_private_message) adds exactly the username to
\* reactions[emoji] and changes nothing else in the server's state; two
\* consecutive ones leave the reactions, and the whole state, as before the
\* first.
ReactionToggle ==
  /\ \A r \in DOMAIN rooms, s \in DOMAIN users, e \in EmojiInputs :
       \A i \in 1..Len(rooms[r].messages) :
          LET m == rooms[r].messages[i]
              u == users[s].username
              once == react_to_message(Cur, s, r, m.id, e)
              twice == react_to_message(once, s, r, m.id, e)
          IN  /\ u \notin Holders(m.reactions, e) =>
                   /\ AddsExactly(m, once.rooms[r].messages[i], e, u)
                   /\ Maps([once EXCEPT !.rooms[r].messages[i] = m]) = Maps(Cur)
              /\ twice.rooms[r].messages[i].reactions = m.reactions
              /\ Maps(twice) = Maps(Cur)
  /\ \A k \in DOMAIN privateThreads, s \in DOMAIN users, e \in EmojiInputs :
       \A i \in 1..Len(privateThreads[k].messages) :
          LET m == privateThreads[k].messages[i]
              u == users[s].username
              once == react_to_private_message(Cur, s, k, m.id, e)
              twice == react_to_private_message(once, s, k, m.id, e)
          IN  /\ u \notin Holders(m.reactions, e) =>
                   /\ AddsExactly(m, once.privateThreads[k].messages[i], e, u)
                   /\ Maps([once EXCEPT !.privateThreads[k].messages[i] = m])
                        = Maps(Cur)
              /\ twice.privateThreads[k].messages[i].reactions = m.reactions
              /\ Maps(twice) = Maps(Cur)

\* every message of every room log and thread log
LogMessages ==
  UNION {Range(rooms[r].messages) : r \in DOMAIN rooms}
    \cup UNION {Range(privateThreads[k].messages) : k \in DOMAIN privateThreads}

\* C6 witness: a message two users have reacted to with one emoji, and a
\* live user who can toggle again
ReactionToggleWitness ==
  \E m \in LogMessages : \E e \in DOMAIN m.reactions :
     /\ Cardinality(m.reactions[e]) = 2
     /\ \E s \in DOMAIN users : users[s].username \in m.reactions[e]

\* C7: in every state, every emoji key of every message of every log maps
\* to a non-empty set of usernames, and when the only holder of an emoji
\* toggles it, the key is gone from the message's reactions.
NoEmptyReactionSets ==
  /\ \A m \in LogMessages : \A e \in DOMAIN m.reactions : m.reactions[e] # {}
  /\ \A r \in DOMAIN rooms, s \in DOMAIN users :
       \A i \in 1..Len(rooms[r].messages) :
          \A e \in DOMAIN rooms[r].messages[i].reactions :
             rooms[r].messages[i].reactions[e] = {users[s].username} =>
                e \notin DOMAIN react_to_message(Cur, s, r, rooms[r].messages[i].id, e)
                                  .rooms[r].messages[i].reactions
  /\ \A k \in DOMAIN privateThreads, s \in DOMAIN users :
       \A i \in 1..Len(privateThreads[k].messages) :
          \A e \in DOMAIN privateThreads[k].messages[i].reactions :
             privateThreads[k].messages[i].reactions[e] = {users[s].username} =>
                e \notin DOMAIN react_to_private_message(
                                   Cur, s, k, privateThreads[k].messages[i].id, e)
                                  .privateThreads[k].messages[i].reactions

\* C7 witness: a thread message whose emoji has one holder, who is live
NoEmptyReactionSetsWitness ==
  \E k \in DOMAIN privateThreads : \E m \in Range(privateThreads[k].messages) :
     \E e \in DOMAIN m.reactions, s \in DOMAIN users :
        m.reactions[e] = {users[s].username}

\* C8: in every step, whatever its event, every message that is in a log
\* before the step and still in it after the step has a deliveredTo set and
\* a readBy set that include the ones it had.
MonotonicReceipts ==
  [][/\ \A r \in DOMAIN rooms \cap DOMAIN rooms' :
          \A m \in Range(rooms[r].messages), n \in Range(rooms'[r].messages) :
             m.id = n.id =>
                m.deliveredTo \subseteq n.deliveredTo /\ m.readBy \subseteq n.readBy
     /\ \A k \in DOMAIN privateThreads \cap DOMAIN privateThreads' :
          \A m \in Range(privateThreads[k].messages),
             n \in Range(privateThreads'[k].messages) :
             m.id = n.id =>
                m.deliveredTo \subseteq n.deliveredTo /\ m.readBy \subseteq n.readBy
    ]_vars

\* C8 witness: a message read by a second user, while no live user has the
\* sender's name (the sender has disconnected or changed name)
MonotonicReceiptsWitness ==
  \E m \in LogMessages :
     /\ Cardinality(m.readBy) = 2
     /\ m.sender \notin LiveUsernames

\* limit 30, as a request carries it
Limit30 == [given |-> TRUE, num |-> 30]

\* the ids of the pages a client collects that requests with before = the
\* returned nextCursor until hasMore is false, concatenated in reverse;
\* ack is the answer to the request before; at most fuel further requests
RECURSIVE Paginate(_, _, _, _)
Paginate(sock, roomId, ack, fuel) ==
  IF ~ack.hasMore \/ fuel = 0 THEN Ids(ack.messages)
  ELSE Paginate(sock, roomId,
                request_room_history(Cur, sock, roomId, ack.nextCursor, Limit30).ack[1],
                fuel - 1)
         \o Ids(ack.messages)

\* C9: for a room log of 100 messages, request_room_history without cursor
\* and with limit 30 returns the last 30 messages and hasMore = true; the
\* pages requested with before = nextCursor until hasMore is false,
\* concatenated in reverse, are the full log, every message once.
PaginationRoundTrip ==
  \A s \in DOMAIN users, r \in DOMAIN rooms :
     Len(rooms[r].messages) = 100 =>
        LET first == request_room_history(Cur, s, r, undefined, Limit30).ack[1]
        IN  /\ first.ok
            /\ first.hasMore
            /\ Ids(first.messages) = Ids(lastN(rooms[r].messages, 30))
            /\ Paginate(s, r, first, 100) = Ids(rooms[r].messages)

\* limits a history request may carry: none, or an integer
LimitInputs ==
  {[given |-> FALSE, num |-> 0]}
    \cup {[given |-> TRUE, num |-> n] : n \in {-1, 0, 1, 2, 30, 100, 101}}

\* C10: for every log, cursor and requested limit, request_room_history
\* returns at most min(limit, 100) messages, 30 at most when no limit is
\* given; they are contiguous in the log and in log order, all before the
\* message whose id is `before`, and the most recent ones when `before` is
\* absent; hasMore is true exactly when a message precedes the slice;
\* nextCursor is then the id of the message right before the slice, and
\* null otherwise. The REST endpoint answers the same.
HistorySlice ==
  \A s \in DOMAIN users, r \in DOMAIN rooms, limit \in LimitInputs :
     \A before \in {undefined} \cup Range(Ids(rooms[r].messages)) :
        LET log == rooms[r].messages
            a == request_room_history(Cur, s, r, before, limit).ack[1]
            rest == get_room_messages(Cur, r, before, limit)
            cap == IF limit.given THEN Min({limit.num, 100}) ELSE 30
            end == IF before = undefined THEN Len(log) ELSE findIndex(log, before)
            k == Len(a.messages)
        IN  /\ a.ok
            /\ k <= cap
            /\ \E j \in 0..end :
                  /\ j + k <= end
                  /\ before = undefined => j + k = end
                  /\ a.messages = [i \in 1..k |-> serializeMessage(log[j + i])]
                  /\ a.hasMore <=> j >= 1
                  /\ a.nextCursor = IF j >= 1 THEN log[j].id ELSE null
            /\ rest.status = 200
            /\ rest.messages = a.messages
            /\ rest.hasMore = a.hasMore
            /\ rest.nextCursor = a.nextCursor

\* the key of typingTimers for a connection and a room
TimerKey(sock, roomId) == sock \o STR_colon \o roomId

\* C11: in every state at most one timeout is pending for one connection
\* and room, and it is the one typingTimers holds under their key; after a
\* typing event with isTyping = true the pending timeout of the pair is the
\* one the event has set, the one before it has been cleared.
OneTypingTimer ==
  /\ \A t \in timers, u \in timers : t.key = u.key => t = u
  /\ \A t \in timers : MapHas(typingTimers, t.key) /\ typingTimers[t.key] = t.handle
  /\ \A sock \in DOMAIN users, roomId \in DOMAIN rooms :
       LET after == typing(Cur, sock, roomId, TRUE)
       IN  {t.handle : t \in {x \in after.timers : x.key = TimerKey(sock, roomId)}}
              = {Len(armed) + 1}

\* C11 witness: a timeout is pending for a pair that has set two
OneTypingTimerWitness ==
  \E t \in timers :
     Cardinality({i \in 1..Len(armed) : armed[i].key = t.key}) >= 2

\* the handles of the timeouts set for a key, in the order they were set
HandlesOf(key) ==
  LET mine == SelectSeq(armed, LAMBDA t : t.key = key)
  IN  [i \in 1..Len(mine) |-> mine[i].handle]

\* three typing events with isTyping = true have come for the key and none
\* of their timeouts has fired
ThreeBeforeExpiry(key) ==
  Len(HandlesOf(key)) = 3 /\ Range(HandlesOf(key)) \cap expired = {}

\* of the timeouts of the key exactly the last one has fired, none is
\* pending, and the username is not in the typing set of the room
OneExpiry(sock, roomId) ==
  /\ Len(HandlesOf(TimerKey(sock, roomId))) = 3
  /\ Range(HandlesOf(TimerKey(sock, roomId))) \cap expired
        = {HandlesOf(TimerKey(sock, roomId))[3]}
  /\ \A t \in timers : t.key # TimerKey(sock, roomId)
  /\ sock \in DOMAIN users
  /\ users[sock].username \notin rooms[roomId].typing

\* C12: when a user has sent typing(isTyping = true) three times for one
\* room before any expiry and sends nothing more, exactly one expiry
\* follows for the connection and room: the one of the timeout the last
\* call has set; from then on the username is not in the room's typing
\* set and the timeouts of the first two calls never fire.  Every expiry
\* emits one typing_users snapshot of the room, without the username.
TypingDebounce ==
  /\ [](\A t \in timers :
          LET after == typingTimeout(Cur, t)
          IN  /\ Len(after.emitted) = 1
              /\ after.emitted[1].event = "typing_users"
              /\ after.emitted[1].data =
                    [roomId |-> t.roomId, users |-> rooms[t.roomId].typing \ {t.username}])
  /\ \A sock \in Sockets, roomId \in {STR_general, STR_random} :
       (ThreeBeforeExpiry(TimerKey(sock, roomId))
          /\ [](Len(HandlesOf(TimerKey(sock, roomId))) <= 3))
         ~> []OneExpiry(sock, roomId)

\* C12 witness: after three calls for one key, the third timeout has fired
TypingDebounceWitness ==
  \E sock \in Sockets, roomId \in {STR_general, STR_random} :
     /\ Len(HandlesOf(TimerKey(sock, roomId))) = 3
     /\ expired = {HandlesOf(TimerKey(sock, roomId))[3]}
     /\ timers = {}

\* after the disconnect of sock: none of its timeouts is pending and its
\* username is in no room's typing set
CleanAfterDisconnect(sock) ==
  LET after == disconnect(Cur, sock)
  IN  /\ \A t \in after.timers : ~startsWith(t.key, sock \o STR_colon)
      /\ \A r \in DOMAIN after.rooms : users[sock].username \notin after.rooms[r].typing

\* after sock has left roomId: its timeout for the room is not pending and
\* its username is not in the room's typing set
CleanAfterLeave(sock, roomId) ==
  LET after == leave_room(Cur, sock, roomId)
  IN  /\ \A t \in after.timers : t.key # TimerKey(sock, roomId)
      /\ users[sock].username \notin after.rooms[roomId].typing

\* C13: whatever typing, join and leave events came before, after a
\* connection disconnects no typing timeout of the connection is pending
\* and its username is in no typing set, and after it leaves a room its
\* timeout for that room is not pending and its username is not in that
\* room's typing set.
TypingCleanup ==
  /\ \A sock \in DOMAIN users : CleanAfterDisconnect(sock)
  /\ \A sock \in DOMAIN users, roomId \in DOMAIN rooms : CleanAfterLeave(sock, roomId)

\* the username is bound to no live user: usernameToSocketId has no socket
\* for it, or users has no record for that socket
Offline(to) ==
  ~MapHas(usernameToSocketId, to) \/ ~MapHas(users, usernameToSocketId[to])

\* usernames a private_message names: "a", "b", "c" (who never joins), none
RecipientInputs == Usernames \cup {<<99>>, undefined}

\* C14: a private_message to a username bound to no live user is answered
\* ok:false, with 'Recipient is offline' when the sender is authenticated
\* and names a recipient and a non-blank message; it changes nothing (no
\* thread, no message) and emits nothing; a later user_join of the target
\* goes exactly as it would have gone without the message.
OfflineRecipient ==
  \A sock \in Connected, to \in RecipientInputs, message \in Messages :
     Offline(to) =>
        LET r == private_message(Cur, sock, to, message)
        IN  /\ ~r.ack[1].ok
            /\ (sock \in DOMAIN users /\ Truthy(to)) =>
                  r.ack[1].error = "Recipient is offline"
            /\ Maps(r) = Maps(Cur)
            /\ r.emitted = <<>>
            /\ \A other \in Connected \ {sock} :
                  LET later == user_join([r EXCEPT !.ack = NoAck], other, to)
                  IN  /\ Maps(later) = Maps(user_join(Cur, other, to))
                      /\ later.emitted = user_join(Cur, other, to).emitted

\* C14 witness: a live user can name a username bound to no live user,
\* and a connection without a user is there to join under it later
OfflineRecipientWitness ==
  \E sock \in DOMAIN users, other \in Connected \ DOMAIN users, to \in Usernames :
     Offline(to)

\* the handler has changed nothing and has emitted nothing
Ignored(r) == Maps(r) = Maps(Cur) /\ r.emitted = <<>>

\* the handler has changed nothing, has emitted nothing and has answered
\* ok:false
Refused(r) == Ignored(r) /\ Len(r.ack) = 1 /\ ~r.ack[1].ok

\* ids of the messages in the logs, and one no log has
MessageIdInputs ==
  {m.id : m \in LogMessages} \cup {uuidv4(0)}

JoinInputs == UsernameInputs \cup {<<98, 32>>, <<32, 9>>, null}

\* C16: a user_join whose username is missing, empty or white space only is
\* answered ok:false and changes nothing (no User, no binding, no member,
\* no system message) and emits nothing; a user_join that succeeds stores
\* the trimmed username, binds it to the connection, makes the connection a
\* member of "general" and acknowledges activeRoom "general".
JoinValidation ==
  \A sock \in Connected, raw \in JoinInputs :
     LET r == user_join(Cur, sock, raw)
         name == IF Truthy(raw) THEN trim(raw) ELSE <<>>
     IN  /\ (~Truthy(raw) \/ \A i \in 1..Len(raw) : raw[i] \in WhiteSpace) =>
               /\ ~r.ack[1].ok
               /\ Maps(r) = Maps(Cur)
               /\ r.roomHistory = roomHistory
               /\ r.emitted = <<>>
         /\ r.ack[1].ok =>
               /\ name # <<>>
               /\ \A i \in {1, Len(name)} : name[i] \notin WhiteSpace
               /\ \E pre \in {<<>>, <<32>>}, post \in {<<>>, <<32>>} : raw = pre \o name \o post
               /\ r.users[sock].username = name
               /\ r.usernameToSocketId[name] = sock
               /\ sock \in r.rooms[STR_general].members
               /\ SetHas(r.users[sock].rooms, STR_general)
               /\ STR_general \in r.sockRooms[sock]
               /\ r.users[sock].activeRoom = STR_general
               /\ r.ack[1].activeRoom = STR_general

\* C16 witness: a user has joined under a name and is a member of
\* "general", and another connection has yet to join
JoinValidationWitness ==
  \E s \in DOMAIN users :
     /\ usernameToSocketId[users[s].username] = s
     /\ s \in rooms[STR_general].members
     /\ Connected \ DOMAIN users # {}
     /\ Len(rooms[STR_general].messages) >= 1

\* the members and the log of a room, empty for a room that does not exist
MembersOf(st, roomId) == IF MapHas(st.rooms, roomId) THEN st.rooms[roomId].members ELSE {}
LogOf(st, roomId) == IF MapHas(st.rooms, roomId) THEN st.rooms[roomId].messages ELSE <<>>

\* the receive_message events among the emissions of a handler
SystemEvents(r) ==
  SelectSeq(r.emitted, LAMBDA e : e.event = "receive_message")

\* C17: a join_room by a connection that is already among the members of
\* the target room changes neither the members nor the log of the room; a
\* join_room by a connection that is not among them adds it and appends
\* exactly one system message "<username> joined <room.name>", which is
\* emitted once, to every member of the room, the joiner included.
RoomJoin ==
  \A sock \in DOMAIN users, requestedRoom \in RoomIdInputs, roomName \in RoomNameInputs :
     LET r == join_room(Cur, sock, requestedRoom, roomName, undefined)
     IN  r.ack[1].ok =>
           LET roomId == r.ack[1].roomId
               room == r.rooms[roomId]
           IN  IF sock \in MembersOf(Cur, roomId)
               THEN /\ room.members = MembersOf(Cur, roomId)
                    /\ room.messages = LogOf(Cur, roomId)
                    /\ SystemEvents(r) = <<>>
               ELSE /\ room.members = MembersOf(Cur, roomId) \cup {sock}
                    /\ Len(room.messages) = Len(LogOf(Cur, roomId)) + 1
                    /\ SubSeq(room.messages, 1, Len(room.messages) - 1) = LogOf(Cur, roomId)
                    /\ LET message == room.messages[Len(room.messages)]
                       IN  /\ message.isSystem
                           /\ message.body = users[sock].username \o STR_joined \o room.name
                           /\ Len(SystemEvents(r)) = 1
                           /\ SystemEvents(r)[1].data = serializeMessage(message)
                           /\ room.members \subseteq SystemEvents(r)[1].to
                           /\ sock \in SystemEvents(r)[1].to

\* C18: when a joined connection disconnects, every room that has it among
\* its members loses exactly one member and gets exactly one system message
\* "<username> left the room" at the end of its log; every other room keeps
\* its member count and its log.
DisconnectRoomEffect ==
  \A sock \in DOMAIN users :
     LET r == disconnect(Cur, sock)
     IN  \A roomId \in DOMAIN rooms :
           LET room == r.rooms[roomId]
           IN  IF sock \in rooms[roomId].members
               THEN /\ Cardinality(room.members) = Cardinality(rooms[roomId].members) - 1
                    /\ Len(room.messages) = Len(rooms[roomId].messages) + 1
                    /\ SubSeq(room.messages, 1, Len(room.messages) - 1) = rooms[roomId].messages
                    /\ room.messages[Len(room.messages)].isSystem
                    /\ room.messages[Len(room.messages)].body =
                         users[sock].username \o STR_left_the_room
               ELSE /\ Cardinality(room.members) = Cardinality(rooms[roomId].members)
                    /\ room.messages = rooms[roomId].messages

\* names a room is asked for under: "General", "Dev" and " DEV!", whose
\* slugs are "general", "dev" and "dev"
CreateNames == {STR_General, <<68, 101, 118>>, <<32, 68, 69, 86, 33>>}

\* options of a createRoom call that names other attributes than any room has
OtherOptions(id) ==
  [id |-> id, name |-> <<88>>, description |-> <<89>>, createdBy |-> <<90>>]

\* what createRoom never changes in a room
Attributes(room) == <<room.id, room.name, room.description, room.createdBy>>

\* createRoom for an id that exists returns that room and changes nothing;
\* join_room for an id that exists keeps the room's attributes, keeps its
\* members (but for the joiner) and keeps its log (but for the join message)
Idempotent ==
  /\ \A name \in CreateNames, id \in DOMAIN rooms \cup {undefined} :
       LET made == createRoom(Cur, name, OtherOptions(id))
       IN  /\ Truthy(id) => made.roomId = id
           /\ ~Truthy(id) => made.roomId = Slug(name)
           /\ made.roomId \in DOMAIN rooms => Maps(made.st) = Maps(Cur)
  /\ \A sock \in DOMAIN users, requestedRoom \in DOMAIN rooms \cup {undefined},
        roomName \in CreateNames \cup {undefined} :
       LET r == join_room(Cur, sock, requestedRoom, roomName, <<89>>)
       IN  r.ack[1].ok /\ r.ack[1].roomId \in DOMAIN rooms =>
             LET room == r.rooms[r.ack[1].roomId]
                 was == rooms[r.ack[1].roomId]
             IN  /\ Attributes(room) = Attributes(was)
                 /\ room.members \in {was.members, was.members \cup {sock}}
                 /\ Len(room.messages) <= Len(was.messages) + 1
                 /\ SubSeq(room.messages, 1, Len(was.messages)) = was.messages
                 /\ \A other \in DOMAIN rooms \ {r.ack[1].roomId} :
                      r.rooms[other] = rooms[other]

\* C19: creating or joining a room whose id exists returns the room that
\* exists, with name, description, creator, members and log as they were; a
\* room that exists, exists in every later state with the same id, name,
\* description and creator; "general" and "random" exist in every state.
RoomsPersist ==
  /\ [](STR_general \in DOMAIN rooms /\ STR_random \in DOMAIN rooms /\ Idempotent)
  /\ [][\A roomId \in DOMAIN rooms :
          /\ roomId \in DOMAIN rooms'
          /\ Attributes(rooms'[roomId]) = Attributes(rooms[roomId])]_vars

\* C19 witness: a room made by a join_room exists and has a member and a
\* log, and a user who is not a member of it is live
RoomsPersistWitness ==
  \E roomId \in DOMAIN rooms \ {STR_general, STR_random} :
     /\ rooms[roomId].members # {}
     /\ rooms[roomId].messages # <<>>
     /\ DOMAIN users \ rooms[roomId].members # {}

\* strings to normalize: "Dev", " DEV!", "a  b", "--a--", "!!", "" and
\* "general"
SlugInputs ==
  {<<68, 101, 118>>, <<32, 68, 69, 86, 33>>, <<97, 32, 32, 98>>,
   <<45, 45, 97, 45, 45>>, <<33, 33>>, <<>>, STR_general}

\* roomId and roomName of a join_room payload: absent, or one of the
\* strings above that is not empty
RoomRequests == {undefined} \cup (SlugInputs \ {<<>>})

\* lower-case letters and digits separated by single hyphens, with no
\* hyphen at either end
IsSlug(id) ==
  /\ id # <<>>
  /\ \A i \in 1..Len(id) : IsAlnum(id[i]) \/ id[i] = 45
  /\ id[1] # 45 /\ id[Len(id)] # 45
  /\ \A i \in 1..(Len(id) - 1) : ~(id[i] = 45 /\ id[i + 1] = 45)

\* normalizing twice gives what normalizing once gives, and gives a slug
NormalizeIdempotent ==
  \A value \in SlugInputs :
     LET once == normalizeRoomId(value, nextId)
     IN  /\ IsSlug(once)
         /\ normalizeRoomId(once, nextId + 1) = once

\* C20: the id of every room is a normalized slug (normalizing it gives the
\* id itself); when a join_room names a room that does not exist, the id of
\* the room it makes is the normalized slug of the name it was given, or a
\* generated id when that slug is empty; normalizing is idempotent.
NormalizedRoomIds ==
  /\ \A roomId \in DOMAIN rooms :
       /\ rooms[roomId].id = roomId
       /\ IsSlug(roomId)
       /\ normalizeRoomId(roomId, nextId) = roomId
  /\ \A sock \in DOMAIN users, requestedRoom \in RoomRequests, roomName \in RoomRequests :
       LET r == join_room(Cur, sock, requestedRoom, roomName, undefined)
       IN  r.ack[1].ok /\ r.ack[1].roomId \notin DOMAIN rooms =>
             /\ IsSlug(r.ack[1].roomId)
             /\ r.ack[1].roomId \in
                  {normalizeRoomId(name, nextId) :
                     name \in {requestedRoom, roomName} \ {undefined}}
  /\ NormalizeIdempotent

\* C21: once the disconnect of a connection has been processed, its id is
\* no key of users, no username is bound to it, no room has it among its
\* members and no pending typing timeout is one it has set.
CompleteCleanup ==
  \A sock \in closed :
     /\ ~MapHas(users, sock)
     /\ \A username \in DOMAIN usernameToSocketId : usernameToSocketId[username] # sock
     /\ \A roomId \in DOMAIN rooms : sock \notin rooms[roomId].members
     /\ \A t \in timers : ~startsWith(t.key, sock \o STR_colon)
     /\ \A key \in DOMAIN typingTimers : ~startsWith(key, sock \o STR_colon)

\* message bodies of a post: those of Messages that are not blank, and one
\* padded with white space
BodyInputs == {m \in Messages : Truthy(m) /\ trim(m) # <<>>} \cup {<<32, 104, 105, 32>>}

\* C22: a send_message of a user with a body that is not blank, to a room
\* that exists, appends exactly one message to the log of that room (and to
\* no other log), emits it once as receive_message to every connection
\* that is a member of the room, the sender included when a member, and
\* acknowledges with the id of the appended message.
RoomPostFanOut ==
  \A sock \in DOMAIN users, roomId \in DOMAIN rooms, message \in BodyInputs :
     LET r == send_message(Cur, sock, roomId, message)
         log == r.rooms[roomId].messages
         posted == log[Len(log)]
     IN  /\ r.ack = <<[ok |-> TRUE, messageId |-> posted.id]>>
         /\ Len(log) = Len(rooms[roomId].messages) + 1
         /\ SubSeq(log, 1, Len(log) - 1) = rooms[roomId].messages
         /\ posted.id \notin {m.id : m \in LogMessages}
         /\ posted.body = trim(message)
         /\ posted.sender = users[sock].username
         /\ ~posted.isSystem
         /\ \A other \in DOMAIN rooms \ {roomId} : r.rooms[other] = rooms[other]
         /\ DOMAIN r.rooms = DOMAIN rooms
         /\ r.privateThreads = privateThreads
         /\ Len(r.emitted) = 1
         /\ r.emitted[1].event = "receive_message"
         /\ r.emitted[1].data = serializeMessage(posted)
         /\ (rooms[roomId].members \cap Connected) \subseteq r.emitted[1].to

\* C22 witness: a room has two connected members and holds a message one
\* of them has posted
RoomPostFanOutWitness ==
  \E roomId \in DOMAIN rooms :
     /\ Cardinality(rooms[roomId].members \cap Connected) = 2
     /\ \E i \in 1..Len(rooms[roomId].messages) :
          /\ ~rooms[roomId].messages[i].isSystem
          /\ rooms[roomId].messages[i].senderId \in rooms[roomId].members

\* the keys of the threads that have the username among their participants
ThreadsOf(username) ==
  {k \in DOMAIN privateThreads : username \in Range(privateThreads[k].participants)}

\* the initial_state events among the emissions of a handler
InitialStates(r) ==
  SelectSeq(r.emitted, LAMBDA e : e.event = "initial_state")

\* a user_join that succeeds sends the connection one initial_state, which
\* lists exactly the threads of the username, each with its log
JoinListsThreads ==
  \A sock \in Connected, username \in ThreadUsernames :
     LET r == user_join(Cur, sock, username)
     IN  r.ack[1].ok =>
           /\ Len(InitialStates(r)) = 1
           /\ InitialStates(r)[1].to = {sock}
           /\ {t.id : t \in InitialStates(r)[1].data.threads} = ThreadsOf(username)
           /\ \A t \in InitialStates(r)[1].data.threads :
                /\ t.participants = privateThreads[t.id].participants
                /\ Ids(t.messages) = Ids(lastN(privateThreads[t.id].messages, 30))

\* a private message of a user to the user of another username, when the
\* two usernames have a thread, is appended to that thread and makes no
\* thread
SameThread ==
  \A sock \in DOMAIN users, to \in ThreadUsernames, message \in Messages :
     LET r == private_message(Cur, sock, to, message)
         between == {k \in DOMAIN privateThreads :
                       Range(privateThreads[k].participants) = {users[sock].username, to}}
     IN  /\ r.ack[1].ok
         /\ users[usernameToSocketId[to]].username = to
         /\ between # {}
         => /\ r.ack[1].threadId \in between
            /\ DOMAIN r.privateThreads = DOMAIN privateThreads
            /\ Ids(r.privateThreads[r.ack[1].threadId].messages)
                 = Append(Ids(privateThreads[r.ack[1].threadId].messages),
                          r.ack[1].messageId)

ShownTyping(sock, username) ==
  /\ MapHas(typingByThread, sock)
  /\ \E threadId \in DOMAIN typingByThread[sock] : username \in typingByThread[sock][threadId]

\* C24: when a user who has signalled private typing to a counterpart sends
\* no further typing(true), because it stays inactive or because it has
\* disconnected, the client of the counterpart, who stays connected,
\* eventually shows the user as not typing, and keeps doing so.
PrivateTypingClears ==
  \A sock \in Sockets : \A other \in Sockets \ {sock} :
     (/\ <>[][\A to \in Usernames : ~EmitTyping(sock, to, TRUE)]_vars
      /\ [](other \in DOMAIN users))
       => <>[](~ShownTyping(other, TwoJoined.users[sock].username))

\* C25: a client that was joined under a username and has lost its
\* transport reconnects and sends user_join with that username, and is
\* eventually joined again under it, whatever the order in which the server
\* receives the user_join of the new connection and processes the
\* disconnect of the old one.
Reconnection ==
  \A sock \in ReconnectSockets, username \in Usernames :
     (sock \in sendBuffer /\ usernameRef[sock] = username)
       ~> (MapHas(users, sock) /\ users[sock].username = username)

\* C26: a private message that private_message accepts is emitted first to
\* the sender and then to the recipient, and in both emissions, and in the
\* log of the thread from then on, deliveredTo holds the username of the
\* sender and the username of the recipient, and readBy holds the username
\* of the sender.
PrivateDeliveryReceipt ==
  /\ \A sock \in DOMAIN users, to \in Usernames, message \in BodyInputs :
       LET r == private_message(Cur, sock, to, message)
           sender == users[sock].username
       IN  r.ack[1].ok =>
             LET recipient == users[usernameToSocketId[to]].username
                 sent == SelectSeq(r.emitted, LAMBDA x : x.event = "private_message")
             IN  /\ Len(sent) = 2
                 /\ r.emitted[1] = sent[1]
                 /\ sent[1].to = {sock}
                 /\ sent[2].to = {usernameToSocketId[to]}
                 /\ \A i \in 1..2 :
                      /\ sent[i].data.message.id = r.ack[1].messageId
                      /\ {sender, recipient} \subseteq sent[i].data.message.deliveredTo
                      /\ sender \in sent[i].data.message.readBy
  /\ \A key \in DOMAIN privateThreads :
       \A i \in 1..Len(privateThreads[key].messages) :
          LET m == privateThreads[key].messages[i]
          IN  /\ {m.sender} \cup Range(privateThreads[key].participants)
                   \subseteq m.deliveredTo
              /\ m.sender \in m.readBy

\* C26 witness: a thread holds a message that one participant has sent to
\* the other and that the other has not read
PrivateDeliveryReceiptWitness ==
  \E key \in DOMAIN privateThreads :
     \E i \in 1..Len(privateThreads[key].messages) :
        LET m == privateThreads[key].messages[i]
        IN  /\ Cardinality(Range(privateThreads[key].participants)) = 2
            /\ m.deliveredTo = Range(privateThreads[key].participants)
            /\ m.readBy = {m.sender}

\* C27: every thread has exactly two participants, and they are two
\* different usernames.
TwoPartyThreads ==
  \A key \in DOMAIN privateThreads :
     /\ Len(privateThreads[key].participants) = 2
     /\ privateThreads[key].participants[1] # privateThreads[key].participants[2]

\* message bodies of a payload: "hi", the empty string, two spaces, none
RejectBodies == Messages \cup {<<>>, <<32, 32>>, undefined}

\* the handler has answered ok:false
Rejected(r) == r.ack # NoAck /\ ~r.ack[1].ok

\* the handler has changed nothing and emitted nothing
Untouched(r) == [r EXCEPT !.ack = NoAck] = Cur

\* C28: an event that is answered ok:false leaves users, bindings, rooms,
\* memberships, threads, logs and typing timers as they were and emits
\* nothing; a send_message to a room that does not exist is answered
\* ok:false and creates no room.
RejectionsChangeNothing ==
  \A sock \in Connected :
     /\ \A rawUsername \in UsernameInputs :
          LET r == user_join(Cur, sock, rawUsername)
          IN  Rejected(r) => Untouched(r)
     /\ \A requestedRoom \in RoomIdInputs, roomName \in RoomNameInputs :
          LET r == join_room(Cur, sock, requestedRoom, roomName, undefined)
          IN  Rejected(r) => Untouched(r)
     /\ \A roomId \in RoomIds \cup {undefined} :
          /\ LET r == leave_room(Cur, sock, roomId)
             IN  Rejected(r) => Untouched(r)
          /\ LET r == request_room_history(Cur, sock, roomId, undefined, Limit30)
             IN  Rejected(r) => Untouched(r)
          /\ \A message \in RejectBodies :
               LET r == send_message(Cur, sock, roomId, message)
               IN  /\ Rejected(r) => Untouched(r)
                   /\ ~MapHas(rooms, roomId) => Rejected(r) /\ DOMAIN r.rooms = DOMAIN rooms
     /\ \A to \in RecipientInputs, message \in RejectBodies :
          LET r == private_message(Cur, sock, to, message)
          IN  Rejected(r) => Untouched(r)

\* C28 witness: a user is joined while the room "dev" does not exist, so
\* that the user's post to "dev" is rejected, and a connection without a
\* user asks for a username that is in use
RejectionsChangeNothingWitness ==
  /\ \E sock \in DOMAIN users :
       /\ ~MapHas(rooms, <<100, 101, 118>>)
       /\ send_message(Cur, sock, <<100, 101, 118>>, <<104, 105>>).ack
            = <<[ok |-> FALSE, error |-> "Room not found"]>>
  /\ \E sock \in Connected \ DOMAIN users, username \in Usernames :
       user_join(Cur, sock, username).ack
         = <<[ok |-> FALSE, error |-> "That username is already in use"]>>

\* typing(isTyping = false) of a user for a room takes the username out of
\* the typing set of the room and cancels the timeout of the connection for
\* the room
StopCancels ==
  \A sock \in DOMAIN users, roomId \in DOMAIN rooms :
     LET r == typing(Cur, sock, roomId, FALSE)
     IN  /\ users[sock].username \notin r.rooms[roomId].typing
         /\ \A t \in r.timers : t.key # TimerKey(sock, roomId)

\* the disconnect of a user cancels every timeout of the connection and
\* takes the username out of the typing set of the room of each of them
DisconnectCancels ==
  \A sock \in DOMAIN users :
     LET r == disconnect(Cur, sock)
     IN  \A t \in timers :
           startsWith(t.key, sock \o STR_colon) =>
              /\ t \notin r.timers
              /\ users[sock].username \notin r.rooms[t.roomId].typing

\* the timeouts that were armed and cancelled: neither pending nor expired
Cancelled == {t \in Range(armed) : t \notin timers /\ t.handle \notin expired}

\* a cancelled timeout stays cancelled: it never expires
CancelledStay == \A t \in Cancelled : t \notin timers' /\ t.handle \notin expired'

\* C29: typing(isTyping = false) for a connection and a room, and the
\* disconnect of a connection, remove the username from the typing set of
\* the room in the same step and cancel the timeouts armed for the
\* connection, and a cancelled timeout never expires afterwards.
CancelledTimersNeverFire ==
  [](StopCancels /\ DisconnectCancels) /\ [][CancelledStay]_vars

\* C30: no inbound event, an event without payload included, ends its
\* handler in an uncaught exception: the process keeps running.
DispatcherSurvives == process = "running"

\* the events that carry private messages and what is done to them
PrivateEvents ==
  {"private_message", "private_notification", "private_read_receipt",
   "private_reaction_update"}

\* every private event the handler has emitted goes only to connections
\* whose user is a participant of the thread
OnlyToParticipants(r, threadId) ==
  \A i \in 1..Len(r.emitted) :
     r.emitted[i].event \in PrivateEvents =>
        \A s \in r.emitted[i].to :
           /\ MapHas(r.users, s)
           /\ r.users[s].username \in Range(r.privateThreads[threadId].participants)

\* C31: whatever events came before, join_room requests for arbitrary room
\* ids included, a private_message, private_notification,
\* private_read_receipt or private_reaction_update is delivered only to
\* connections whose user is a participant of the thread.
PrivateReach ==
  /\ \A sock \in DOMAIN users, to \in ThreadUsernames, message \in Messages :
       LET r == private_message(Cur, sock, to, message)
       IN  r.ack[1].ok => OnlyToParticipants(r, r.ack[1].threadId)
  /\ \A sock \in DOMAIN users, threadId \in DOMAIN privateThreads :
       \A i \in 1..Len(privateThreads[threadId].messages) :
          LET messageId == privateThreads[threadId].messages[i].id
          IN  /\ OnlyToParticipants(private_message_read(Cur, sock, threadId, messageId),
                                    threadId)
              /\ \A emoji \in Emojis :
                   OnlyToParticipants(
                     react_to_private_message(Cur, sock, threadId, messageId, emoji),
                     threadId)

\* C32: users and usernameToSocketId are inverse to each other: the name
\* of every user is bound to the id of that user, and every bound name
\* points to a user of that name.
IdentityMapsAgree ==
  /\ \A sock \in DOMAIN users :
       /\ users[sock].id = sock
       /\ MapHas(usernameToSocketId, users[sock].username)
       /\ usernameToSocketId[users[sock].username] = sock
  /\ \A username \in DOMAIN usernameToSocketId :
       /\ MapHas(users, usernameToSocketId[username])
       /\ users[usernameToSocketId[username]].username = username

\* the connections whose user has the room among its joined rooms
JoinedUsers(roomId) ==
  {sock \in DOMAIN users : roomId \in Range(users[sock].rooms)}

\* C33: a connection is in the member set of a room exactly when it has a
\* user whose room set holds the id of the room, and the memberCount
\* reported for the room is the number of users that have joined it.
MembershipConsistent ==
  \A roomId \in DOMAIN rooms :
     /\ rooms[roomId].members = JoinedUsers(roomId)
     /\ serializeRoom(rooms[roomId]).memberCount = Cardinality(JoinedUsers(roomId))

\* C34: a send_message, react_to_message, message_delivered, message_read
\* or typing event of a user who is not a member of the room leaves the
\* room as it is: its log, reactions, receipts and typing set.
OnlyMembersAct ==
  \A sock \in DOMAIN users, roomId \in DOMAIN rooms :
     (sock \notin rooms[roomId].members /\ roomId \notin Range(users[sock].rooms)) =>
        /\ \A message \in Messages :
             send_message(Cur, sock, roomId, message).rooms[roomId] = rooms[roomId]
        /\ \A isTyping \in BOOLEAN :
             typing(Cur, sock, roomId, isTyping).rooms[roomId] = rooms[roomId]
        /\ \A i \in 1..Len(rooms[roomId].messages) :
             LET messageId == rooms[roomId].messages[i].id
             IN  /\ message_delivered(Cur, sock, messageId, roomId).rooms[roomId]
                      = rooms[roomId]
                 /\ message_read(Cur, sock, messageId, roomId).rooms[roomId]
                      = rooms[roomId]
                 /\ \A emoji \in Emojis :
                      react_to_message(Cur, sock, roomId, messageId, emoji).rooms[roomId]
                        = rooms[roomId]

\* C35: readBy and every reaction set of a private message hold only
\* usernames of the participants of its thread, and a private_message_read
\* or react_to_private_message of a user who is not a participant of the
\* thread leaves the message as it is.
OnlyParticipantsAct ==
  \A threadId \in DOMAIN privateThreads :
     LET thread == privateThreads[threadId]
         participants == Range(thread.participants)
     IN  \A i \in 1..Len(thread.messages) :
           /\ thread.messages[i].readBy \subseteq participants
           /\ \A emoji \in DOMAIN thread.messages[i].reactions :
                thread.messages[i].reactions[emoji] \subseteq participants
           /\ \A sock \in DOMAIN users :
                users[sock].username \notin participants =>
                   /\ private_message_read(Cur, sock, threadId, thread.messages[i].id)
                        .privateThreads[threadId] = thread
                   /\ \A emoji \in Emojis :
                        react_to_private_message(Cur, sock, threadId,
                                                 thread.messages[i].id, emoji)
                          .privateThreads[threadId] = thread

\* C36: among the usernames user_join has accepted, two pairs have the
\* same thread key only if they are the same pair, and the sender of every
\* message of a thread is a participant of the thread.
ThreadKeysInjective ==
  /\ \A A \in LiveUsernames, B \in LiveUsernames, C \in LiveUsernames,
        D \in LiveUsernames :
       makeThreadKey(A, B) = makeThreadKey(C, D) => {A, B} = {C, D}
  /\ \A key \in DOMAIN privateThreads :
       \A i \in 1..Len(privateThreads[key].messages) :
          privateThreads[key].messages[i].sender
            \in Range(privateThreads[key].participants)

\* C37: a leave_room of a user for a room it is not a member of changes
\* neither the log nor the members of the room, and a leave_room that
\* appends a message to the log of a room removes a member from it.
LeaveByNonMember ==
  \A sock \in DOMAIN users, roomId \in DOMAIN rooms :
     LET r == leave_room(Cur, sock, roomId)
     IN  /\ (sock \notin rooms[roomId].members
              /\ roomId \notin Range(users[sock].rooms)) =>
                /\ r.rooms[roomId].messages = rooms[roomId].messages
                /\ r.rooms[roomId].members = rooms[roomId].members
         /\ r.rooms[roomId].messages # rooms[roomId].messages =>
                r.rooms[roomId].members # rooms[roomId].members

\* C38: the activeRoom of every user is the id of a room that exists and
\* that is among the rooms the user has joined, and stays so after a
\* set_active_room of the user.
ActiveRoomJoined ==
  \A sock \in DOMAIN users :
     /\ MapHas(rooms, users[sock].activeRoom)
     /\ users[sock].activeRoom \in Range(users[sock].rooms)
     /\ \A roomId \in RoomIds :
          LET r == set_active_room(Cur, sock, roomId)
          IN  /\ MapHas(r.rooms, r.users[sock].activeRoom)
              /\ r.users[sock].activeRoom \in Range(r.users[sock].rooms)

\* C39: whatever posts came between, and whether or not they have evicted
\* messages (the cursor message included) from the head of the log, a
\* request_room_history with before = the id of a message that was appended
\* to the room returns only messages that were appended before it: never
\* the cursor message, never a later one.
BackwardPagination ==
  \A sock \in DOMAIN users, roomId \in DOMAIN rooms :
     \A k \in 1..Len(roomHistory[roomId]) :
        LET r == request_room_history(Cur, sock, roomId, roomHistory[roomId][k], Limit30)
            page == r.ack[1].messages
        IN  \A i \in 1..Len(page) :
              \E j \in 1..(k - 1) : roomHistory[roomId][j] = page[i].id

\* every username in the typing set of a room is that of a user who has a
\* pending timeout for the room
TypingOwned ==
  \A roomId \in DOMAIN rooms :
     \A username \in rooms[roomId].typing :
        \E sock \in DOMAIN users :
           /\ users[sock].username = username
           /\ \E t \in timers : t.key = TimerKey(sock, roomId)

\* no typing event
NoTyping ==
  \A sock \in Sockets, roomId \in {STR_general, STR_random}, isTyping \in BOOLEAN :
     ~Typing(sock, roomId, isTyping)

\* C40: every username in the typing set of a room belongs to a user that
\* has a pending timeout for that room; hence, when timeouts fire and from
\* some point on no typing event comes, the typing set of every room is
\* empty in the end, whatever joins, leaves and disconnects came before.
TypingEntriesExpire ==
  /\ []TypingOwned
  /\ <>[][NoTyping]_vars => <>[](\A roomId \in DOMAIN rooms : rooms[roomId].typing = {})

====
